---- MODULE Spec2Model ----
(***************************************************************************)
(* Verification model of the ELM327 OBD2 adapter (api/utils/elm327.py),    *)
(* the DTC severity table (api/utils/dtc.py) and the full diagnostic scan  *)
(* coordinator (api/routers/scanner.py).                                   *)
(*                                                                         *)
(* Text is modelled as a sequence of one-character strings, so that        *)
(* slicing, searching, parsing and formatting are computed, not assumed.   *)
(***************************************************************************)
EXTENDS Integers, Sequences, FiniteSets, TLC

VARIABLES
    \* ---- _parse_dtc called on the two bytes b0, b1 written as hex text
    b0, b1, first_byte, second_byte, parsed,
    \* ---- get_dtc_codes: the reply to command 03 is decoded line by line
    dtc_pc,        \* "idle", "ready", "lines" (in `for line in lines`), "done"
    dev_raise,     \* _send_command("03") raised
    n_lines,       \* lines of the reply decoded so far
    cur_part,      \* the line decoded last
    codes_before,  \* the list `codes` before that line
    codes,         \* the list `codes`
    \* ---- the scanner object
    port,          \* self.port ("" is None)
    connected,     \* self.connected
    serial_conn,   \* self.serial_conn: index into handles, 0 is None
    handles,       \* every serial.Serial object created so far
    fast_mode,     \* the attribute _fast_mode (FALSE when it was never set)
    wire,          \* the commands written to a serial handle, in order
    \* ---- one call of _send_command / _send_command_fast
    snd_pc,        \* "idle", "polling", "returned", "raised"
    snd_fast,      \* the call is _send_command_fast
    snd_elapsed,   \* whole seconds since start_time
    snd_response,  \* the local `response`, a list of lines
    snd_result,    \* the text returned
    snd_rx,        \* lines read from the handle during this call
    snd_ioerr,     \* the serial library raised during this call
    rx_buffer,     \* lines waiting in the input buffer of the handle
    dev_lines,     \* lines the device has emitted since the last write
    rx_origin,     \* which command the device is answering, and the command each
                   \* line waiting in the buffer or read by this call answers
    \* ---- connect / disconnect
    os_ports,      \* what serial.tools.list_ports.comports() lists
    bt_paired,     \* what the platform's Bluetooth scan lists
    last_call,     \* the last connect or disconnect call and what it did
    \* ---- perform_full_diagnostic_scan
    scan_pc,       \* the step the full scan is at
    scan_in,       \* the request and what each scanner call did
    scan_out,      \* the response under construction, then returned
    \* ---- one call of a reply parser or of the PID registry
    parse_in,      \* the call and its arguments
    parse_out,     \* what it returned
    \* ---- the coroutines of the event loop that use the shared scanner
    task_kind,     \* per task: the handler it runs
    task_pc,       \* per task: where it is
    task_sends,    \* per task: the sends it still has to make
    \* ---- the live-data cache of the router
    live_data_cache,  \* the dictionary live_data_cache
    live_latest,      \* per field, the value of the last POST that supplied it
    live_response,    \* what the last GET returned, no POST having come since
    live_posts,       \* the number of POSTs so far
    \* ---- the scan sessions of the router
    scan_sessions,    \* the dictionary scan_sessions, by session number
    bg_tasks,         \* the background tasks added and not yet run
    sess_trace        \* per session: the statuses it has had, and how its task ran

dtcVars   == <<b0, b1, first_byte, second_byte, parsed>>
replyVars == <<dtc_pc, dev_raise, n_lines, cur_part, codes_before, codes>>
scanVars  == <<port, connected, serial_conn, handles, fast_mode, wire>>
sendVars  == <<snd_pc, snd_fast, snd_elapsed, snd_response, snd_result, snd_rx,
               snd_ioerr, rx_buffer, dev_lines, rx_origin>>
connVars  == <<os_ports, bt_paired, last_call>>
fullVars  == <<scan_pc, scan_in, scan_out>>
parseVars == <<parse_in, parse_out>>
loopVars  == <<task_kind, task_pc, task_sends>>
liveVars  == <<live_data_cache, live_latest, live_response, live_posts>>
sessVars  == <<scan_sessions, bg_tasks, sess_trace>>
vars      == <<dtcVars, replyVars, scanVars, sendVars, connVars, fullVars, parseVars,
               loopVars, liveVars, sessVars>>

\* what the actions of one specification leave alone
exDtc   == <<replyVars, scanVars, sendVars, connVars, fullVars, parseVars, loopVars,
             liveVars, sessVars>>
exReply == <<dtcVars, scanVars, sendVars, connVars, fullVars, parseVars, loopVars,
             liveVars, sessVars>>
exSend  == <<dtcVars, replyVars, connVars, fullVars, parseVars, loopVars,
             liveVars, sessVars>>
exConn  == <<dtcVars, replyVars, sendVars, fullVars, parseVars, loopVars,
             liveVars, sessVars>>
exFull  == <<dtcVars, replyVars, scanVars, sendVars, connVars, parseVars, loopVars,
             liveVars, sessVars>>
exParse == <<dtcVars, replyVars, scanVars, sendVars, connVars, fullVars, loopVars,
             liveVars, sessVars>>
exLoop  == <<dtcVars, replyVars, scanVars, sendVars, connVars, fullVars, parseVars,
             liveVars, sessVars>>
exLive  == <<dtcVars, replyVars, scanVars, sendVars, connVars, fullVars, parseVars,
             loopVars, sessVars>>
exSess  == <<dtcVars, replyVars, sendVars, fullVars, parseVars, loopVars, liveVars>>

----------------------------------------------------------------------------
(* Text helpers                                                             *)

HexDigits == <<"0","1","2","3","4","5","6","7","8","9","A","B","C","D","E","F">>

IsHexChar(c) == \E i \in 1..16 : HexDigits[i] = c

HexVal(c) == (CHOOSE i \in 1..16 : HexDigits[i] = c) - 1

\* Python's None (a value no text is equal to)
None == <<"None">>

\* s[a:b] with 0-based, end-exclusive Python indices, 0 <= a
Slice(s, a, b) ==
    LET e == IF b > Len(s) THEN Len(s) ELSE b
    IN  IF a >= e THEN <<>> ELSE SubSeq(s, a + 1, e)

\* s.find(sub): 0-based index of the first occurrence, -1 when there is none
Find(s, sub) ==
    LET hits == { i \in 0..(Len(s) - Len(sub)) : Slice(s, i, i + Len(sub)) = sub }
    IN  IF hits = {} THEN -1
        ELSE CHOOSE i \in hits : \A j \in hits : i <= j

\* sub in s
Contains(s, sub) == Find(s, sub) >= 0

RECURSIVE LStrip(_)
LStrip(s) == IF s # <<>> /\ Head(s) = " " THEN LStrip(Tail(s)) ELSE s

RECURSIVE RStrip(_)
RStrip(s) ==
    IF s # <<>> /\ s[Len(s)] = " " THEN RStrip(SubSeq(s, 1, Len(s) - 1)) ELSE s

\* str.strip()
Strip(s) == RStrip(LStrip(s))

RECURSIVE HexToInt(_, _)
HexToInt(s, acc) ==
    IF s = <<>> THEN acc ELSE HexToInt(Tail(s), 16 * acc + HexVal(Head(s)))

\* int(s, 16): surrounding blanks are dropped; -1 stands for ValueError
Int16(s) ==
    LET t == Strip(s)
    IN  IF t = <<>> \/ \E i \in 1..Len(t) : ~IsHexChar(t[i]) THEN -1
        ELSE HexToInt(t, 0)

RECURSIVE BitAnd(_, _)
BitAnd(a, b) ==
    IF a = 0 \/ b = 0 THEN 0
    ELSE (a % 2) * (b % 2) + 2 * BitAnd(a \div 2, b \div 2)

RECURSIVE BitOr(_, _)
BitOr(a, b) ==
    IF a = 0 THEN b
    ELSE IF b = 0 THEN a
    ELSE (IF a % 2 = 1 \/ b % 2 = 1 THEN 1 ELSE 0) + 2 * BitOr(a \div 2, b \div 2)

RECURSIVE ToHex(_)
ToHex(n) ==
    IF n < 16 THEN <<HexDigits[n + 1]>>
    ELSE ToHex(n \div 16) \o <<HexDigits[(n % 16) + 1]>>

RECURSIVE ZeroPad(_, _)
ZeroPad(s, w) == IF Len(s) >= w THEN s ELSE ZeroPad(<<"0">> \o s, w)

\* f"{n:04X}"
Format04X(n) == ZeroPad(ToHex(n), 4)

\* a byte written as two upper-case hex digits, as the adapter prints it
Hex2(b) == <<HexDigits[(b \div 16) + 1], HexDigits[(b % 16) + 1]>>

----------------------------------------------------------------------------
(* ELM327Scanner._parse_dtc                                                 *)

TypeMask == 192
CodeMask == 63

type_map(t) == CASE t = 0 -> "P" [] t = 1 -> "C" [] t = 2 -> "B" [] t = 3 -> "U"
                 [] OTHER -> "P"

\* a plausible slip: the type bits are not masked off the code
parse_dtc_unmasked(fb, sb) ==
    LET first == Int16(fb)  second == Int16(sb)
    IN  IF first < 0 \/ second < 0 THEN None
        ELSE <<type_map(BitAnd(first, TypeMask) \div 64)>>
             \o Format04X(BitOr(first * 256, second))

_parse_dtc(fb, sb) ==
    LET first  == Int16(fb)
        second == Int16(sb)
    IN  IF first < 0 \/ second < 0 THEN None
        ELSE LET dtc_type == BitAnd(first, TypeMask) \div 64
                 code     == BitOr(BitAnd(first, CodeMask) * 256, second)
             IN  <<type_map(dtc_type)>> \o Format04X(code)

----------------------------------------------------------------------------
(* ELM327Scanner.get_dtc_codes: the parse of the reply to command 03        *)

Mode3Marker == <<"4", "3">>
ZeroByte    == <<"0", "0">>
MinLineLen  == 10

\* a plausible slip: a zero group is skipped instead of ending the list
RECURSIVE decode_groups_skip_zero(_, _, _)
decode_groups_skip_zero(dtc_data, i, acc) ==
    IF ~(i < Len(dtc_data) - 3) THEN acc
    ELSE LET fb   == Slice(dtc_data, i, i + 2)
             sb   == Slice(dtc_data, i + 2, i + 4)
             code == _parse_dtc(fb, sb)
         IN  IF fb = ZeroByte /\ sb = ZeroByte
             THEN decode_groups_skip_zero(dtc_data, i + 4, acc)
             ELSE IF code # None /\ ~(\E k \in 1..Len(acc) : acc[k] = code)
                  THEN decode_groups_skip_zero(dtc_data, i + 4, Append(acc, code))
                  ELSE decode_groups_skip_zero(dtc_data, i + 4, acc)

\* the loop `for i in range(0, len(dtc_data) - 3, 4)` from index i on,
\* acc being the list `codes` built so far
RECURSIVE decode_groups(_, _, _)
decode_groups(dtc_data, i, acc) ==
    IF ~(i < Len(dtc_data) - 3) THEN acc
    ELSE LET fb   == Slice(dtc_data, i, i + 2)
             sb   == Slice(dtc_data, i + 2, i + 4)
             code == _parse_dtc(fb, sb)
         IN  IF fb = ZeroByte /\ sb = ZeroByte THEN acc
             ELSE IF code # None /\ ~(\E k \in 1..Len(acc) : acc[k] = code)
                  THEN decode_groups(dtc_data, i + 4, Append(acc, code))
                  ELSE decode_groups(dtc_data, i + 4, acc)

\* the body of `for line in lines` for one line
decode_line(line, marker, acc) ==
    IF Contains(line, marker) /\ Len(line) > MinLineLen
    THEN LET line_clean == Strip(line)
             mode3_pos  == Find(line_clean, marker)
         IN  IF mode3_pos >= 0
             THEN decode_groups(Slice(line_clean, mode3_pos + 2, Len(line_clean)), 0, acc)
             ELSE acc
    ELSE acc

RECURSIVE decode_lines(_, _, _)
decode_lines(lines, marker, acc) ==
    IF lines = <<>> THEN acc
    ELSE decode_lines(Tail(lines), marker, decode_line(Head(lines), marker, acc))

\* get_dtc_codes on a reply that is a list of lines; raised: the send raised,
\* which get_dtc_codes turns into the empty list
get_dtc_codes(raised, lines) ==
    IF raised THEN <<>> ELSE decode_lines(lines, Mode3Marker, <<>>)

----------------------------------------------------------------------------
(* Inputs                                                                   *)

Byte == 0..255

MaxGroups == 3
MaxLines  == 2

\* header bytes in front of the payload, a CAN id and a length byte: the
\* usual engine ECU id 7E8, and the id 743
Headers == { <<"7","E","8","0","6">>, <<"7","4","3","0","6">> }

\* two raw DTC bytes as four hex digits; 0000 is the padding of unused slots
Groups == { <<"0","3","0","0">>, <<"0","1","7","1">>, <<"0","0","0","0">> }

GroupSeqs == UNION { [1..k -> Groups] : k \in 0..MaxGroups }

\* lines that are not header + marker + groups: the adapter's NO DATA text
\* and a reply printed with spaces between the bytes (the adapter's default)
NoDataLine == <<"N","O"," ","D","A","T","A">>
SpacedLine == <<"4","3"," ","0","1"," ","3","3"," ","0","0"," ","0","0"," ","0","0"," ","0","0">>

Parts ==
    [hdr : Headers, groups : GroupSeqs, marker : {TRUE}]
    \cup [hdr : {NoDataLine, SpacedLine}, groups : {<<>>}, marker : {FALSE}]

NoPart == [hdr |-> <<>>, groups |-> <<>>, marker |-> FALSE]

RECURSIVE Concat(_)
Concat(ss) == IF ss = <<>> THEN <<>> ELSE Head(ss) \o Concat(Tail(ss))

\* the text of a line
LineOf(p) == p.hdr \o (IF p.marker THEN Mode3Marker ELSE <<>>) \o Concat(p.groups)

----------------------------------------------------------------------------
(* Idle values of each group of variables                                   *)

DtcIdle ==
    b0 = 0 /\ b1 = 0 /\ first_byte = <<>> /\ second_byte = <<>> /\ parsed = <<>>

ReplyIdle ==
    /\ dtc_pc = "idle" /\ dev_raise = FALSE /\ n_lines = 0
    /\ cur_part = NoPart /\ codes_before = <<>> /\ codes = <<>>

\* the scanner after ELM327Scanner()
ScannerNew ==
    /\ port = "" /\ connected = FALSE /\ serial_conn = 0 /\ handles = <<>>
    /\ fast_mode = FALSE /\ wire = <<>>

\* the device has the first command to answer; no line is under way
NoOrigin == [dev |-> 1, pending |-> <<>>, read |-> <<>>]

SendIdle ==
    /\ snd_pc = "idle" /\ snd_fast = FALSE /\ snd_elapsed = 0
    /\ snd_response = <<>> /\ snd_result = <<>> /\ snd_rx = 0
    /\ snd_ioerr = FALSE /\ rx_buffer = <<>> /\ dev_lines = 0
    /\ rx_origin = NoOrigin

NoCall ==
    [op |-> "none", arg |-> "", req_fast |-> FALSE, ret |-> FALSE, mode |-> "none",
     open_port |-> "", opened |-> FALSE, open_timeout |-> 0, completed |-> 0,
     raised |-> FALSE, probe |-> <<>>, log |-> "none", sent |-> <<>>,
     result |-> None]

ConnIdle == os_ports = <<>> /\ bt_paired = <<>> /\ last_call = NoCall

NoScan == [status |-> "none"]

NoParse == [op |-> "none"]

FullIdle ==
    /\ scan_pc = "idle" /\ scan_in = NoScan /\ scan_out = NoScan

ParseIdle == parse_in = NoParse /\ parse_out = NoParse

LoopIdle == task_kind = <<>> /\ task_pc = <<>> /\ task_sends = <<>>

LiveIdle ==
    /\ live_data_cache = <<>> /\ live_latest = <<>> /\ live_response = <<>>
    /\ live_posts = 0

SessIdle == scan_sessions = <<>> /\ bg_tasks = <<>> /\ sess_trace = <<>>

\* the variables beside those of the scanner and of the specification
\* at hand
RouterIdle == LiveIdle /\ SessIdle

----------------------------------------------------------------------------
(* Specification SpecDtc: _parse_dtc on every pair of bytes                 *)

InitDtc ==
    /\ b0 \in Byte /\ b1 \in Byte
    /\ first_byte = Hex2(b0) /\ second_byte = Hex2(b1)
    /\ parsed = <<>>
    /\ ReplyIdle /\ ScannerNew /\ SendIdle /\ ConnIdle /\ FullIdle /\ ParseIdle /\ LoopIdle /\ RouterIdle

ParseDtcCall ==
    /\ parsed = <<>>
    /\ parsed' = _parse_dtc(first_byte, second_byte)
    /\ UNCHANGED <<b0, b1, first_byte, second_byte, exDtc>>

NextDtc == ParseDtcCall

SpecDtc == InitDtc /\ [][NextDtc]_vars

----------------------------------------------------------------------------
(* Specification SpecReply: get_dtc_codes on a reply of up to MaxLines      *)
(* lines, decoded in the order of the loop over the lines                   *)

InitReply ==
    /\ DtcIdle /\ ScannerNew /\ SendIdle /\ ConnIdle /\ FullIdle /\ ParseIdle /\ LoopIdle /\ RouterIdle
    /\ dtc_pc = "ready" /\ dev_raise = FALSE /\ n_lines = 0
    /\ cur_part = NoPart /\ codes_before = <<>> /\ codes = <<>>

\* response = self._send_command("03") returns text
GetDtcSendOk ==
    /\ dtc_pc = "ready"
    /\ dtc_pc' = "lines"
    /\ UNCHANGED <<dev_raise, n_lines, cur_part, codes_before, codes, exReply>>

\* self._send_command("03") raises: except Exception -> return []
GetDtcSendRaises ==
    /\ dtc_pc = "ready"
    /\ dtc_pc' = "done" /\ dev_raise' = TRUE
    /\ codes' = get_dtc_codes(TRUE, <<>>)
    /\ UNCHANGED <<n_lines, cur_part, codes_before, exReply>>

\* one iteration of `for line in lines`
GetDtcLine ==
    /\ dtc_pc = "lines" /\ n_lines < MaxLines
    /\ \E p \in Parts :
          /\ cur_part' = p
          /\ codes_before' = codes
          /\ codes' = decode_line(LineOf(p), Mode3Marker, codes)
    /\ n_lines' = n_lines + 1
    /\ UNCHANGED <<dtc_pc, dev_raise, exReply>>

\* return codes
GetDtcReturn ==
    /\ dtc_pc = "lines"
    /\ dtc_pc' = "done"
    /\ UNCHANGED <<dev_raise, n_lines, cur_part, codes_before, codes, exReply>>

NextReply == GetDtcSendOk \/ GetDtcSendRaises \/ GetDtcLine \/ GetDtcReturn

SpecReply == InitReply /\ [][NextReply]_vars

----------------------------------------------------------------------------
(* Claims about _parse_dtc                                                  *)

P0300 == <<"P","0","3","0","0">>
P0171 == <<"P","0","1","7","1">>
P0000 == <<"P","0","0","0","0">>
C0050 == <<"C","0","0","5","0">>
B0010 == <<"B","0","0","1","0">>
U0100 == <<"U","0","1","0","0">>

PrefixOfBits(t) == <<"P", "C", "B", "U">>[t + 1]

\* C1: for every pair of bytes (b0, b1) the decoded code has 5 characters,
\* its first character is P, C, B or U for top bits 00, 01, 10, 11 of b0, and
\* the other four are ((b0 & 0x3F) << 8 | b1) as upper-case hex digits; the
\* raw bytes of P0300, C0050, B0010 and U0100 decode to these strings.
Thm_C1 ==
    parsed # <<>> =>
        /\ Len(parsed) = 5
        /\ parsed[1] = PrefixOfBits(b0 \div 64)
        /\ parsed[2] = HexDigits[((b0 % 64) \div 16) + 1]
        /\ parsed[3] = HexDigits[(b0 % 16) + 1]
        /\ parsed[4] = HexDigits[(b1 \div 16) + 1]
        /\ parsed[5] = HexDigits[(b1 % 16) + 1]
        /\ (b0 = 3   /\ b1 = 0  => parsed = P0300)
        /\ (b0 = 64  /\ b1 = 80 => parsed = C0050)
        /\ (b0 = 128 /\ b1 = 16 => parsed = B0010)
        /\ (b0 = 193 /\ b1 = 0  => parsed = U0100)

Witness_C1 == b0 = 193 /\ b1 = 0 /\ parsed = U0100

----------------------------------------------------------------------------
(* Claims about get_dtc_codes                                               *)

G0300 == <<"0","3","0","0">>
G0171 == <<"0","1","7","1">>
G0000 == <<"0","0","0","0">>

GroupCode(g) == _parse_dtc(Slice(g, 0, 2), Slice(g, 2, 4))

SeqToSet(s) == { s[i] : i \in 1..Len(s) }

\* the reply was one line: header bytes, marker 43, then non-zero groups
OneMarkedLine ==
    /\ dtc_pc = "done" /\ ~dev_raise /\ n_lines = 1
    /\ cur_part.marker
    /\ \A i \in 1..Len(cur_part.groups) : cur_part.groups[i] # G0000

\* C2: for a reply line made of any header bytes, the marker 43 and k
\* non-zero 4-hex-digit groups, get_dtc_codes returns exactly the codes
\* decoded from those groups, whatever the header; the groups 0300 and 0171
\* give {P0300, P0171}.
Orig_C2 ==
    OneMarkedLine =>
        /\ SeqToSet(codes) = { GroupCode(g) : g \in SeqToSet(cur_part.groups) }
        /\ (cur_part.groups = <<G0300, G0171>> => SeqToSet(codes) = {P0300, P0171})

\* the text after the first marker of the line decoded last, as the groups
\* of four characters the decoder walks over
DataAfterMarker ==
    LET line == Strip(LineOf(cur_part))
        pos  == Find(line, Mode3Marker)
    IN  IF pos < 0 THEN <<>> ELSE Slice(line, pos + 2, Len(line))

NGroups == Len(DataAfterMarker) \div 4

GroupAt(j) == Slice(DataAfterMarker, 4 * j, 4 * j + 4)

FirstZero ==
    LET zs == { j \in 0..(NGroups - 1) : GroupAt(j) = G0000 }
    IN  IF zs = {} THEN NGroups ELSE CHOOSE j \in zs : \A k \in zs : j <= k

HexOnly(s) == \A i \in 1..Len(s) : IsHexChar(s[i])

----------------------------------------------------------------------------
(* ELM327Scanner._send_command and _send_command_fast                       *)

max_timeout      == 10
max_timeout_fast == 3

MaxDevLines == 2
MaxSends    == 2

Cmds == {"03", "0105"}

Prompt == <<">">>

\* what the device may print as one line: a status word, data, data that
\* ends in the prompt, the prompt alone, and a blank line
DeviceLines ==
    { <<"O","K">>, <<"4","1","0","5","7","B">>, <<"4","1","0","5","7","B",">">>,
      Prompt, <<" ">> }

\* a plausible slip: both send variants share the short deadline
deadline_short_for_both(fast) == max_timeout_fast

Deadline(fast) == IF fast THEN max_timeout_fast ELSE max_timeout

\* a plausible slip: silence is reported as an exception
send_return_raise_on_silence(response) ==
    IF response = <<>> THEN [kind |-> "raised", text |-> <<>>]
    ELSE [kind |-> "returned", text |-> response]

\* `return response.strip()`: the lines read, nothing else
send_return(response) == [kind |-> "returned", text |-> response]

HandleOpen == serial_conn # 0 /\ handles[serial_conn].is_open

\* the guard, reset_input_buffer(), write(cmd) and flush()
SendBegin ==
    /\ snd_pc \in {"idle", "returned", "raised"}
    /\ Len(wire) < MaxSends
    /\ \E cmd \in Cmds, fast \in BOOLEAN, io_ok \in BOOLEAN :
          /\ snd_fast' = fast
          /\ snd_elapsed' = 0 /\ snd_response' = <<>> /\ snd_result' = <<>>
          /\ snd_rx' = 0 /\ dev_lines' = 0
          /\ IF ~connected \/ serial_conn = 0
             THEN \* raise ConnectionError
                  /\ snd_pc' = "raised" /\ snd_ioerr' = FALSE
                  /\ rx_origin' = [rx_origin EXCEPT !.read = <<>>]
                  /\ UNCHANGED <<rx_buffer, wire>>
             ELSE IF ~io_ok \/ ~HandleOpen
             THEN \* the serial library raises on the handle
                  /\ snd_pc' = "raised" /\ snd_ioerr' = TRUE
                  /\ rx_origin' = [rx_origin EXCEPT !.read = <<>>]
                  /\ UNCHANGED <<rx_buffer, wire>>
             ELSE /\ snd_pc' = "polling" /\ snd_ioerr' = FALSE
                  /\ rx_buffer' = <<>>
                  /\ rx_origin' = [rx_origin EXCEPT !.pending = <<>>, !.read = <<>>]
                  /\ wire' = Append(wire, cmd)
    /\ UNCHANGED <<port, connected, serial_conn, handles, fast_mode, exSend>>

\* the device prints a line of its answer to a command it has received:
\* the one it was answering, or a later one it has turned to; the prompt
\* ends the answer
DeviceEmit ==
    /\ snd_pc \in {"polling", "returned"}
    /\ dev_lines < MaxDevLines
    /\ \E l \in DeviceLines, c \in rx_origin.dev..Len(wire) :
          /\ rx_buffer' = Append(rx_buffer, l)
          /\ rx_origin' = [rx_origin EXCEPT
                              !.dev = IF Contains(l, Prompt) THEN c + 1 ELSE c,
                              !.pending = Append(@, c)]
    /\ dev_lines' = dev_lines + 1
    /\ UNCHANGED <<snd_pc, snd_fast, snd_elapsed, snd_response, snd_result, snd_rx,
                   snd_ioerr, scanVars, exSend>>

\* the loop finds in_waiting > 0 and reads a line
SendPollRead ==
    /\ snd_pc = "polling" /\ snd_elapsed < Deadline(snd_fast)
    /\ rx_buffer # <<>>
    /\ LET line == Strip(Head(rx_buffer))
           resp == IF line # <<>> THEN Append(snd_response, line) ELSE snd_response
       IN  /\ snd_response' = resp
           /\ IF line # <<>> /\ Contains(line, Prompt)
              THEN /\ snd_pc' = send_return(resp).kind
                   /\ snd_result' = send_return(resp).text
              ELSE UNCHANGED <<snd_pc, snd_result>>
    /\ rx_buffer' = Tail(rx_buffer)
    /\ rx_origin' = [rx_origin EXCEPT
                        !.pending = Tail(@),
                        !.read = IF Strip(Head(rx_buffer)) # <<>>
                                 THEN Append(@, Head(rx_origin.pending)) ELSE @]
    /\ snd_rx' = snd_rx + 1
    /\ \E d \in {0, 1} : snd_elapsed' = snd_elapsed + d
    /\ UNCHANGED <<snd_fast, snd_ioerr, dev_lines, scanVars, exSend>>

\* readline() raises inside the try: the loop is left, the text so far returned
SendReadError ==
    /\ snd_pc = "polling" /\ snd_elapsed < Deadline(snd_fast)
    /\ rx_buffer # <<>>
    /\ snd_pc' = send_return(snd_response).kind
    /\ snd_result' = send_return(snd_response).text
    /\ snd_ioerr' = TRUE
    /\ UNCHANGED <<snd_fast, snd_elapsed, snd_response, snd_rx, rx_buffer, dev_lines, rx_origin,
                   scanVars, exSend>>

\* in_waiting raises (outside the try): the exception leaves _send_command
SendPollError ==
    /\ snd_pc = "polling" /\ snd_elapsed < Deadline(snd_fast)
    /\ snd_pc' = "raised" /\ snd_ioerr' = TRUE
    /\ UNCHANGED <<snd_fast, snd_elapsed, snd_response, snd_result, snd_rx, rx_buffer,
                   dev_lines, rx_origin, scanVars, exSend>>

\* the loop finds in_waiting == 0 and sleeps
SendPollSleep ==
    /\ snd_pc = "polling" /\ snd_elapsed < Deadline(snd_fast)
    /\ rx_buffer = <<>>
    /\ \E d \in {0, 1} : snd_elapsed' = snd_elapsed + d
    /\ UNCHANGED <<snd_pc, snd_fast, snd_response, snd_result, snd_rx, snd_ioerr,
                   rx_buffer, dev_lines, rx_origin, scanVars, exSend>>

\* the loop condition fails: the deadline has passed
SendDeadline ==
    /\ snd_pc = "polling" /\ ~(snd_elapsed < Deadline(snd_fast))
    /\ snd_pc' = send_return(snd_response).kind
    /\ snd_result' = send_return(snd_response).text
    /\ UNCHANGED <<snd_fast, snd_elapsed, snd_response, snd_rx, snd_ioerr, rx_buffer,
                   dev_lines, rx_origin, scanVars, exSend>>

\* a scanner that connect() left connected on an open handle, or a new one
InitSend ==
    /\ DtcIdle /\ ReplyIdle /\ SendIdle /\ ConnIdle /\ FullIdle /\ ParseIdle /\ LoopIdle /\ RouterIdle
    /\ fast_mode = FALSE /\ wire = <<>>
    /\ \/ ScannerNew
       \/ /\ port = "/dev/ttyUSB0" /\ connected = TRUE /\ serial_conn = 1
          /\ handles = <<[port |-> "/dev/ttyUSB0", is_open |-> TRUE, timeout |-> 1]>>

NextSend ==
    \/ SendBegin \/ DeviceEmit \/ SendPollRead \/ SendReadError \/ SendPollError
    \/ SendPollSleep \/ SendDeadline

SpecSend == InitSend /\ [][NextSend]_vars

----------------------------------------------------------------------------
(* Port discovery: ELM327Scanner.list_available_ports                       *)

MaxPorts   == 2
MaxHandles == 2

\* str(bool)
PyStr(b) == IF b THEN "True" ELSE "False"

\* the serial ports the operating system may list: the device path, the arm
\* of the connection-type test its description selects, and the result of
\* the OBD2 keyword test on it
Comports ==
    { [device |-> "/dev/ttyS0",    arm |-> "other",     keyword |-> FALSE],
      [device |-> "/dev/ttyUSB0",  arm |-> "usb",       keyword |-> TRUE],
      [device |-> "COM3",          arm |-> "usb",       keyword |-> TRUE],
      [device |-> "/dev/cu.OBDII", arm |-> "bluetooth", keyword |-> TRUE] }

ComportLists ==
    { l \in UNION { [1..k -> Comports] : k \in 0..MaxPorts } :
        \A i, j \in 1..Len(l) : i # j => l[i] # l[j] }

\* the entry _scan_bluetooth_linux adds for a paired OBD2 adapter
PairedEntry ==
    [port |-> "/dev/rfcomm0", connection_type |-> "bluetooth",
     is_obd2_compatible |-> "true"]

port_info(c) ==
    [port |-> c.device,
     connection_type |-> IF c.arm = "other" THEN "unknown" ELSE c.arm,
     is_obd2_compatible |-> IF c.arm = "other" THEN "false" ELSE PyStr(c.keyword)]

list_available_ports(os, bt) == [i \in 1..Len(os) |-> port_info(os[i])] \o bt

\* the choice connect makes among the listed ports; "" when there is none
select_port(available_ports) ==
    LET obd2_ports == SelectSeq(available_ports,
                                LAMBDA p : p.is_obd2_compatible = "true")
    IN  IF obd2_ports # <<>> THEN obd2_ports[1].port
        ELSE IF available_ports # <<>> THEN available_ports[1].port
        ELSE ""

----------------------------------------------------------------------------
(* ELM327Scanner._is_bluetooth_port                                         *)

PortText(name) ==
    CASE name = "/dev/ttyS0"    -> <<"/","d","e","v","/","t","t","y","S","0">>
      [] name = "/dev/ttyUSB0"  -> <<"/","d","e","v","/","t","t","y","U","S","B","0">>
      [] name = "/dev/cu.OBDII" -> <<"/","d","e","v","/","c","u",".","O","B","D","I","I">>
      [] name = "/dev/rfcomm0"  -> <<"/","d","e","v","/","r","f","c","o","m","m","0">>
      [] name = "COM3"          -> <<"C","O","M","3">>
      [] OTHER -> <<>>

UpperChars == <<"B","C","D","I","M","O","S","U">>
LowerChars == <<"b","c","d","i","m","o","s","u">>

LowerChar(c) ==
    IF \E i \in 1..Len(UpperChars) : UpperChars[i] = c
    THEN LowerChars[CHOOSE i \in 1..Len(UpperChars) : UpperChars[i] = c]
    ELSE c

\* str.lower()
Lower(s) == [i \in 1..Len(s) |-> LowerChar(s[i])]

bluetooth_indicators ==
    { <<"b","l","u","e","t","o","o","t","h">>, <<"b","t">>, <<"r","f","c","o","m","m">>,
      <<"/","d","e","v","/","c","u",".","b","l","u","e","t","o","o","t","h">>,
      <<"/","d","e","v","/","t","t","y",".","b","l","u","e","t","o","o","t","h">>,
      <<"c","o","m">>, <<"t","t","y",".">>, <<"o","b","d","i","i">>, <<"o","b","d">> }

PortNames == {"/dev/ttyS0", "/dev/ttyUSB0", "/dev/cu.OBDII", "/dev/rfcomm0", "COM3"}

\* the port names in which some indicator occurs
BluetoothPortNames ==
    { name \in PortNames :
        \E ind \in bluetooth_indicators : Contains(Lower(PortText(name)), ind) }

_is_bluetooth_port(name) ==
    IF name = "" THEN FALSE ELSE name \in BluetoothPortNames

----------------------------------------------------------------------------
(* The handshakes: _standard_bluetooth_init, _fast_bluetooth_init and       *)
(* _initialize_usb_connection                                               *)

standard_bluetooth_init ==
    <<"ATZ", "ATE0", "ATH1", "ATSP0", "ATS0", "ATM0", "ATAT1", "ATAL", "ATST64", "0100">>

fast_bluetooth_init == <<"ATZ", "ATE0", "ATH1", "ATSP0", "ATAT1", "0100">>

usb_init == <<"ATZ", "ATE0", "ATL0", "0100">>

init_mode(is_bluetooth, fast) ==
    IF is_bluetooth THEN (IF fast THEN "fast" ELSE "standard") ELSE "usb"

init_commands(mode) ==
    CASE mode = "standard" -> standard_bluetooth_init
      [] mode = "fast"     -> fast_bluetooth_init
      [] OTHER             -> usb_init

ErrorLine == <<"E","R","R","O","R">>
DataLine  == <<"4","1","0","0","B","E","3","F","A","8","1","3">>

\* what the probe 0100 may return: data, NO DATA, ERROR, nothing
ProbeReplies == { DataLine, NoDataLine, ErrorLine, <<>> }

\* a plausible slip: a probe without data fails the handshake
probe_check_hard_fail(mode, response) ==
    IF mode # "standard" THEN "none"
    ELSE IF response = <<>> \/ Contains(response, NoDataLine) \/ Contains(response, ErrorLine)
         THEN "raise" ELSE "info"

\* what the initialisation does with the reply to the probe: the standard
\* one logs a warning or an info line, the others ignore it
probe_check(mode, response) ==
    IF mode # "standard" THEN "none"
    ELSE IF response = <<>> \/ Contains(response, NoDataLine) \/ Contains(response, ErrorLine)
         THEN "warning" ELSE "info"

timeout_for(is_bluetooth) == IF is_bluetooth THEN 3 ELSE 1

----------------------------------------------------------------------------
(* connect_scanner (the HTTP handler) calling ELM327Scanner.connect, and    *)
(* ELM327Scanner.disconnect                                                 *)

ConnectArgs == {"", "/dev/ttyUSB0", "/dev/rfcomm0"}

\* close the handle self.serial_conn if there is one and it is open
CloseCurrent(hs, cur) ==
    IF cur # 0 /\ hs[cur].is_open THEN [hs EXCEPT ![cur].is_open = FALSE] ELSE hs

\* `return False` before any port was chosen
ConnectNoDevice(arg, req_fast) ==
    /\ last_call' = [NoCall EXCEPT !.op = "connect", !.arg = arg, !.req_fast = req_fast]
    /\ UNCHANGED <<port, connected, serial_conn, handles, wire>>

\* serial.Serial(...) raises: the except branch of connect
ConnectOpenFails(arg, req_fast, p) ==
    /\ port' = p
    /\ connected' = FALSE
    /\ handles' = CloseCurrent(handles, serial_conn)
    /\ last_call' = [NoCall EXCEPT !.op = "connect", !.arg = arg, !.req_fast = req_fast,
                                   !.open_port = p, !.raised = TRUE,
                                   !.open_timeout = timeout_for(_is_bluetooth_port(p))]
    /\ UNCHANGED <<serial_conn, wire>>

\* a slip: the except branch forgets the handle it opened
connect_failed_keeps_handle(h) == h

\* the except branch of connect: `self.serial_conn.close()` on the open handle
connect_failed(h) == [h EXCEPT !.is_open = FALSE]

\* the port opens and the initialisation runs: `completed` commands return,
\* then either the initialisation ends or the next send raises, with its
\* command written or not
ConnectHandshake(arg, req_fast, p, fast, completed, wrote, probe) ==
    LET bt     == _is_bluetooth_port(p)
        mode   == init_mode(bt, fast)
        cmds   == init_commands(mode)
        all    == completed = Len(cmds)
        check  == IF all THEN probe_check(mode, probe) ELSE "none"
        raised == ~all \/ check = "raise"
        sent   == SubSeq(cmds, 1, IF ~all /\ wrote THEN completed + 1 ELSE completed)
        opened == [port |-> p, is_open |-> TRUE, timeout |-> timeout_for(bt)]
        h      == IF raised THEN connect_failed(opened) ELSE opened
    IN  /\ port' = p
        /\ handles' = Append(handles, h)
        /\ serial_conn' = Len(handles) + 1
        /\ connected' = ~raised
        /\ wire' = sent
        /\ last_call' = [op |-> "connect", arg |-> arg, req_fast |-> req_fast,
                         ret |-> ~raised, mode |-> mode, open_port |-> p,
                         opened |-> TRUE, open_timeout |-> timeout_for(bt),
                         completed |-> completed, raised |-> raised,
                         probe |-> IF all THEN probe ELSE <<>>,
                         log |-> check, sent |-> sent, result |-> None]

Connect ==
    /\ Len(handles) < MaxHandles
    /\ \E arg \in ConnectArgs, req_fast \in BOOLEAN :
        LET fast  == fast_mode \/ req_fast
            port1 == IF arg # "" THEN arg ELSE port
            p     == IF port1 # "" THEN port1
                     ELSE select_port(list_available_ports(os_ports, bt_paired))
        IN  /\ fast_mode' = fast
            /\ IF p = "" THEN ConnectNoDevice(arg, req_fast)
               ELSE \/ ConnectOpenFails(arg, req_fast, p)
                    \/ \E completed \in 0..Len(init_commands(init_mode(_is_bluetooth_port(p), fast))) :
                         IF completed = Len(init_commands(init_mode(_is_bluetooth_port(p), fast)))
                         THEN \E probe \in ProbeReplies :
                                 ConnectHandshake(arg, req_fast, p, fast, completed, FALSE, probe)
                         ELSE \E wrote \in BOOLEAN :
                                 ConnectHandshake(arg, req_fast, p, fast, completed, wrote, <<>>)
    /\ UNCHANGED <<os_ports, bt_paired, exConn>>

Disconnect ==
    /\ last_call.op # "disconnect"
    /\ handles' = CloseCurrent(handles, serial_conn)
    /\ connected' = FALSE
    /\ last_call' = [NoCall EXCEPT !.op = "disconnect"]
    /\ UNCHANGED <<port, serial_conn, fast_mode, wire, os_ports, bt_paired, exConn>>

InitConn ==
    /\ DtcIdle /\ ReplyIdle /\ SendIdle /\ ScannerNew
    /\ os_ports \in ComportLists
    /\ bt_paired \in {<<>>, <<PairedEntry>>}
    /\ last_call = NoCall
    /\ FullIdle /\ ParseIdle /\ LoopIdle /\ RouterIdle

NextConn == Connect \/ Disconnect

SpecConn == InitConn /\ [][NextConn]_vars

\* C4: a send on a connected scanner whose device delivers nothing before
\* the deadline, the serial library raising nothing, returns the empty
\* string and raises no exception.
Thm_C4 ==
    (snd_pc \in {"returned", "raised"} /\ connected /\ serial_conn # 0
        /\ snd_rx = 0 /\ ~snd_ioerr)
    => (snd_pc = "returned" /\ snd_result = <<>>)

Witness_C4 ==
    /\ snd_pc = "returned" /\ connected /\ snd_rx = 0 /\ ~snd_ioerr
    /\ snd_elapsed = Deadline(snd_fast) /\ snd_fast /\ snd_result = <<>>
    /\ Len(wire) = 1

----------------------------------------------------------------------------
(* Claims about connect                                                     *)

\* the ports discovery flags as OBD2-compatible
FlaggedPorts ==
    LET avail == list_available_ports(os_ports, bt_paired)
    IN  { avail[i].port : i \in { k \in 1..Len(avail) :
                                    avail[k].is_obd2_compatible \in {"true", "True"} } }

\* C8: a connect without endpoint argument opens an endpoint that discovery
\* flagged OBD2-compatible if there is one, otherwise the first endpoint
\* listed, and fails without opening a handle if discovery lists none.
Orig_C8 ==
    (last_call.op = "connect" /\ last_call.arg = "") =>
        LET avail == list_available_ports(os_ports, bt_paired)
        IN  /\ FlaggedPorts # {} => last_call.open_port \in FlaggedPorts
            /\ (FlaggedPorts = {} /\ avail # <<>>) => last_call.open_port = avail[1].port
            /\ avail = <<>> => (~last_call.ret /\ last_call.open_port = "")

\* C9 as stated, for the connects whose handshake no exception cut short:
\* every connect that opens the port sends ATZ, ATE0, ATH1, ATSP0, ATS0,
\* ATM0, ATAT1, ATAL, ATST64 and 0100, in that order, whatever the endpoint
\* and the initialisation mode.
Orig_C9 ==
    (last_call.op = "connect" /\ last_call.opened /\ ~last_call.raised) =>
        last_call.sent =
            <<"ATZ", "ATE0", "ATH1", "ATSP0", "ATS0", "ATM0", "ATAT1", "ATAL", "ATST64", "0100">>

\* every command of the initialisation returned
AllCommandsReturned ==
    \/ last_call.mode = "standard" /\ last_call.completed = 10
    \/ last_call.mode = "fast" /\ last_call.completed = 6
    \/ last_call.mode = "usb" /\ last_call.completed = 4

\* C10: if the port opens and every handshake command returns without an
\* exception, connect reports success and leaves the scanner connected on
\* its open handle, also when the probe 0100 returned NO DATA, ERROR or
\* nothing.
Thm_C10 ==
    (last_call.op = "connect" /\ last_call.opened /\ AllCommandsReturned) =>
        /\ last_call.ret
        /\ connected
        /\ serial_conn # 0 /\ handles[serial_conn].is_open
        /\ handles[serial_conn].port = last_call.open_port

Witness_C10 ==
    /\ last_call.op = "connect" /\ last_call.opened /\ last_call.mode = "standard"
    /\ last_call.completed = 10 /\ last_call.probe = NoDataLine
    /\ last_call.log = "warning"
    /\ last_call.ret /\ connected /\ handles[serial_conn].is_open

----------------------------------------------------------------------------
(* api/utils/dtc.py: _clean_dtc_code, categorize_dtc, get_dtc_severity      *)

LowerLetters == <<"a","b","c","d","e","f","p","u">>
UpperLetters == <<"A","B","C","D","E","F","P","U">>

UpperChar(c) ==
    IF \E i \in 1..Len(LowerLetters) : LowerLetters[i] = c
    THEN UpperLetters[CHOOSE i \in 1..Len(LowerLetters) : LowerLetters[i] = c]
    ELSE c

\* str.upper()
Upper(s) == [i \in 1..Len(s) |-> UpperChar(s[i])]

AlnumChars ==
    { HexDigits[i] : i \in 1..16 } \cup
    { "G","H","I","J","K","L","M","N","O","P","Q","R","S","T","U","V","W","X","Y","Z" }

\* re.sub(r'[^A-Z0-9]', '', code)
KeepAlnum(s) == SelectSeq(s, LAMBDA c : c \in AlnumChars)

StartsWith(s, pre) == Len(pre) <= Len(s) /\ SubSeq(s, 1, Len(pre)) = pre

SystemLetters == {"P", "B", "C", "U"}

\* len(code) == 5 and code[0] in 'PBCU' and all hex digits after it
WellFormed(code) ==
    /\ Len(code) = 5
    /\ code[1] \in SystemLetters
    /\ \A i \in 2..5 : IsHexChar(code[i])

\* an exception leaving a function
Raise == <<"raise">>

\* the repair of the digits of a code longer than 5 characters
fix_numeric_part(n) ==
    IF Len(n) = 5
    THEN (IF StartsWith(n, <<"0","0">>) THEN Tail(n) ELSE n)
    ELSE IF Len(n) = 6 /\ StartsWith(n, <<"0","0">>)
    THEN (IF Slice(n, 2, 6) = <<"1","3","0","0">> THEN <<"0","1","3","0">>
          ELSE IF Slice(n, 2, 6) = <<"0","3","0","0">> THEN <<"0","3","0","0">>
          ELSE Slice(n, 2, Len(n)))
    ELSE n

_clean_dtc_code(raw) ==
    IF raw = <<>> THEN <<>>
    ELSE LET code == KeepAlnum(Upper(Strip(raw)))
         IN  IF WellFormed(code) THEN code
             ELSE IF code = <<>> THEN Raise  \* code[0]: IndexError
             ELSE LET fixed == IF code[1] \in SystemLetters /\ Len(code) > 5
                               THEN <<code[1]>> \o fix_numeric_part(Tail(code))
                               ELSE code
                  IN  IF WellFormed(fixed) THEN fixed ELSE <<>>

categorize_dtc(code) ==
    IF code = <<>> THEN "Unknown"
    ELSE CASE UpperChar(code[1]) = "P" -> "Powertrain (Engine/Transmission)"
           [] UpperChar(code[1]) = "B" -> "Body (Interior/Exterior)"
           [] UpperChar(code[1]) = "C" -> "Chassis (Brakes/Steering/Suspension)"
           [] UpperChar(code[1]) = "U" -> "Network/Communication"
           [] OTHER -> "Unknown System"

critical_patterns ==
    { <<"P","0","3","0">>, <<"P","0","5","6">>, <<"P","0","6","0">>,
      <<"C","0","0","0">>, <<"B","0","0","0">> }

high_priority_codes ==
    { <<"P","0","1","0","0">>, <<"P","0","1","0","1">>, <<"P","0","1","0","2">>,
      <<"P","0","1","0","3">>, <<"P","0","1","1","5">>, <<"P","0","1","1","7">>,
      <<"P","0","1","1","8">>, <<"P","0","1","2","0">>, <<"P","0","1","2","1">>,
      <<"P","0","1","2","2">>, <<"P","0","1","2","3">>, <<"P","0","1","7","1">>,
      <<"P","0","1","7","2">>, <<"P","0","1","7","4">>, <<"P","0","1","7","5">>,
      <<"P","0","5","0","0">> }

moderate_patterns ==
    { <<"P","0","4","2">>, <<"P","0","4","4">>, <<"P","0","1","3">>,
      <<"P","0","7","0">>, <<"P","0","7","5">>, <<"P","0","7","6">> }

\* (the tests for B000 and C000 further down in the source cannot be
\* reached: both are critical patterns)
get_dtc_severity(raw) ==
    LET cleaned == _clean_dtc_code(Strip(Upper(raw)))
    IN  IF cleaned = Raise THEN "raise"
        ELSE IF cleaned = <<>> THEN "Unknown"
        ELSE IF \E pat \in critical_patterns : StartsWith(cleaned, pat) THEN "Critical"
        ELSE IF cleaned \in high_priority_codes THEN "High"
        ELSE IF \E pat \in moderate_patterns : StartsWith(cleaned, pat) THEN "Moderate"
        ELSE IF cleaned[1] = "U" THEN "Moderate"
        ELSE IF cleaned[1] = "B" THEN "Low"
        ELSE IF cleaned[1] = "C"
             THEN (IF StartsWith(cleaned, <<"C","1","0","0">>) THEN "High" ELSE "Moderate")
        ELSE "Low"

----------------------------------------------------------------------------
(* The scanner calls of the full scan that src/ does not define. They are   *)
(* taken from the specification: the pending and the permanent pass decode  *)
(* their reply as the active pass does, with the markers 47 and 4A; every   *)
(* call either returns or raises.                                           *)

Mode7Marker == <<"4", "7">>
ModeAMarker == <<"4", "A">>

get_pending_dtc_codes(lines) == decode_lines(lines, Mode7Marker, <<>>)

get_permanent_dtc_codes(lines) == decode_lines(lines, ModeAMarker, <<>>)

VinValue       == <<"V","I","N">>
MonitorsValue  == <<[monitor_name |-> "Catalyst", status |-> "Ready"],
                    [monitor_name |-> "EVAP", status |-> "Not Ready"]>>
LiveValue      == <<[name |-> "rpm", value |-> 800, unit |-> "RPM"]>>

\* get_freeze_frame_data(code): one frame for the code
FrameOf(code) == [dtc_code |-> code, frame_data |-> "raw"]

----------------------------------------------------------------------------
(* perform_full_diagnostic_scan                                             *)

MaxScanGroups == 2
FreezeLimit   == 3

G0420 == <<"0","4","2","0">>

\* the raw DTC groups a pass may report: P0300 (critical) and P0420
ScanGroups == { <<"0","3","0","0">>, G0420 }

ScanGroupSeqs == UNION { [1..k -> ScanGroups] : k \in 0..MaxScanGroups }

ScanHeader == <<"7","E","8","0","6">>

\* what a pass did: its reply text, or an exception
PassOutcomes ==
    [kind : {"text"}, groups : ScanGroupSeqs] \cup [kind : {"raise"}, groups : {<<>>}]

ReplyLines(o, marker) == << ScanHeader \o marker \o Concat(o.groups) >>

ScanRequests ==
    [include_vin : BOOLEAN, include_live_parameters : BOOLEAN,
     include_freeze_frame : BOOLEAN]

\* a call that was not made
NoPass == [kind |-> "none", groups |-> <<>>]

NoOutcomes ==
    [vin |-> "none", active |-> NoPass, pending |-> NoPass, permanent |-> NoPass,
     readiness |-> "none", live |-> "none", freeze |-> "none"]

\* the response as constructed at the start of the scan; error_messages holds
\* the local list that step 7 stores in the response
FullDiagnosticScanResponse ==
    [ status |-> "partial", vehicle_info |-> None, trouble_codes |-> <<>>,
      active_codes_count |-> 0, pending_codes_count |-> 0, permanent_codes_count |-> 0,
      readiness_monitors |-> <<>>, monitors_ready |-> 0, monitors_not_ready |-> 0,
      live_parameters |-> <<>>, freeze_frames |-> <<>>, overall_health |-> "unknown",
      error_messages |-> <<>> ]

TroubleCodeInfo(code, st) ==
    [code |-> code, system |-> categorize_dtc(code),
     severity |-> get_dtc_severity(code), status |-> st]

InSeq(x, s) == \E i \in 1..Len(s) : s[i] = x

Infos(cs, st) == [i \in 1..Len(cs) |-> TroubleCodeInfo(cs[i], st)]

\* a plausible slip: the passes are appended without the duplicate tests
all_codes_no_dedup(active_codes, pending_codes, permanent_codes) ==
    Infos(active_codes, "Active") \o Infos(pending_codes, "Pending")
    \o Infos(permanent_codes, "Permanent")

\* the list all_codes built from the three passes
all_codes(active_codes, pending_codes, permanent_codes) ==
    Infos(active_codes, "Active")
    \o Infos(SelectSeq(pending_codes, LAMBDA c : ~InSeq(c, active_codes)), "Pending")
    \o Infos(SelectSeq(permanent_codes,
                       LAMBDA c : ~InSeq(c, active_codes) /\ ~InSeq(c, pending_codes)),
             "Permanent")

\* step 6
overall_health(trouble_codes) ==
    IF trouble_codes # <<>>
    THEN (IF \E i \in 1..Len(trouble_codes) : trouble_codes[i].severity = "Critical"
          THEN "critical" ELSE "warning")
    ELSE "good"

\* the scanner is not connected: no scan. The loop variable `status` of
\* step 3 makes the name local to the handler, so building the 400 answer
\* (status.HTTP_400_BAD_REQUEST) raises UnboundLocalError, and so does the
\* handler of that exception: the request ends with HTTP 500
FullScanRejected ==
    /\ scan_pc = "idle" /\ ~connected
    /\ \E req \in ScanRequests :
          scan_in' = [status |-> "request", req |-> req, x |-> NoOutcomes]
    /\ scan_out' = [status |-> "http500"]
    /\ scan_pc' = "rejected"
    /\ UNCHANGED exFull

FullScanBegin ==
    /\ scan_pc = "idle" /\ connected
    /\ \E req \in ScanRequests :
          scan_in' = [status |-> "request", req |-> req, x |-> NoOutcomes]
    /\ scan_out' = FullDiagnosticScanResponse
    /\ scan_pc' = "vin"
    /\ UNCHANGED exFull

\* 1. VIN if requested
ScanVin ==
    /\ scan_pc = "vin"
    /\ IF scan_in.req.include_vin
       THEN \E o \in {"ok", "empty", "raise"} :
               /\ scan_in' = [scan_in EXCEPT !.x.vin = o]
               /\ scan_out' =
                    IF o = "ok" THEN [scan_out EXCEPT !.vehicle_info = VinValue]
                    ELSE IF o = "empty"
                    THEN [scan_out EXCEPT !.error_messages =
                              Append(@, "Could not retrieve VIN via OBD2")]
                    ELSE [scan_out EXCEPT !.error_messages =
                              Append(@, "VIN retrieval failed")]
       ELSE UNCHANGED <<scan_in, scan_out>>
    /\ scan_pc' = "dtc"
    /\ UNCHANGED exFull

\* 2. the three passes; an exception of the second or the third leaves the
\* counts set so far and no trouble-code list
ScanDtc ==
    /\ scan_pc = "dtc"
    /\ \E a \in PassOutcomes, p \in PassOutcomes :
          LET active_codes  == get_dtc_codes(a.kind = "raise", ReplyLines(a, Mode3Marker))
              pending_codes == get_pending_dtc_codes(ReplyLines(p, Mode7Marker))
              failed == Append(scan_out.error_messages, "Trouble code retrieval failed")
          IN  IF p.kind = "raise"
              THEN /\ scan_in' = [scan_in EXCEPT !.x.active = a, !.x.pending = p]
                   /\ scan_out' = [scan_out EXCEPT
                                      !.active_codes_count = Len(active_codes),
                                      !.error_messages = failed]
              ELSE \E q \in PassOutcomes :
                      LET permanent_codes ==
                              get_permanent_dtc_codes(ReplyLines(q, ModeAMarker))
                      IN  /\ scan_in' = [scan_in EXCEPT !.x.active = a, !.x.pending = p,
                                                        !.x.permanent = q]
                          /\ scan_out' =
                               IF q.kind = "raise"
                               THEN [scan_out EXCEPT
                                        !.active_codes_count = Len(active_codes),
                                        !.pending_codes_count = Len(pending_codes),
                                        !.error_messages = failed]
                               ELSE [scan_out EXCEPT
                                        !.active_codes_count = Len(active_codes),
                                        !.pending_codes_count = Len(pending_codes),
                                        !.permanent_codes_count = Len(permanent_codes),
                                        !.trouble_codes =
                                            all_codes(active_codes, pending_codes,
                                                      permanent_codes)]
    /\ scan_pc' = "readiness"
    /\ UNCHANGED exFull

\* 3. readiness monitors
ScanReadiness ==
    /\ scan_pc = "readiness"
    /\ \E o \in {"ok", "raise"} :
          /\ scan_in' = [scan_in EXCEPT !.x.readiness = o]
          /\ scan_out' =
               IF o = "ok"
               THEN [scan_out EXCEPT !.readiness_monitors = MonitorsValue,
                                     !.monitors_ready = 1, !.monitors_not_ready = 1]
               ELSE [scan_out EXCEPT !.error_messages =
                         Append(@, "Readiness monitor check failed")]
    /\ scan_pc' = "live"
    /\ UNCHANGED exFull

\* 4. live parameters if requested
ScanLive ==
    /\ scan_pc = "live"
    /\ IF scan_in.req.include_live_parameters
       THEN \E o \in {"ok", "raise"} :
               /\ scan_in' = [scan_in EXCEPT !.x.live = o]
               /\ scan_out' =
                    IF o = "ok" THEN [scan_out EXCEPT !.live_parameters = LiveValue]
                    ELSE [scan_out EXCEPT !.error_messages =
                              Append(@, "Live parameters retrieval failed")]
       ELSE UNCHANGED <<scan_in, scan_out>>
    /\ scan_pc' = "freeze"
    /\ UNCHANGED exFull

\* 5. freeze frames of the first codes, if requested and there are codes
ScanFreeze ==
    /\ scan_pc = "freeze"
    /\ IF scan_in.req.include_freeze_frame /\ scan_out.trouble_codes # <<>>
       THEN \E o \in {"ok", "raise"} :
               LET tc    == scan_out.trouble_codes
                   first == SubSeq(tc, 1, IF Len(tc) < FreezeLimit THEN Len(tc)
                                          ELSE FreezeLimit)
               IN  /\ scan_in' = [scan_in EXCEPT !.x.freeze = o]
                   /\ scan_out' =
                        IF o = "ok"
                        THEN [scan_out EXCEPT !.freeze_frames =
                                  [i \in 1..Len(first) |-> FrameOf(first[i].code)]]
                        ELSE [scan_out EXCEPT !.error_messages =
                                  Append(@, "Freeze frame retrieval failed")]
       ELSE UNCHANGED <<scan_in, scan_out>>
    /\ scan_pc' = "health"
    /\ UNCHANGED exFull

\* a plausible slip: a scan that reaches its end is reported as completed
final_status_completed(error_messages) == "completed"

\* step 7: the status from the messages collected
final_status(error_messages) ==
    IF error_messages # <<>> THEN "partial" ELSE "completed"

\* 6. and 7. overall health, status, return
ScanFinish ==
    /\ scan_pc = "health"
    /\ scan_out' = [scan_out EXCEPT
                       !.overall_health = overall_health(scan_out.trouble_codes),
                       !.status = final_status(scan_out.error_messages)]
    /\ scan_pc' = "done"
    /\ UNCHANGED <<scan_in, exFull>>

InitFull ==
    /\ DtcIdle /\ ReplyIdle /\ SendIdle /\ ConnIdle /\ FullIdle /\ ParseIdle /\ LoopIdle /\ RouterIdle
    /\ fast_mode = FALSE /\ wire = <<>>
    /\ \/ ScannerNew
       \/ /\ port = "/dev/ttyUSB0" /\ connected = TRUE /\ serial_conn = 1
          /\ handles = <<[port |-> "/dev/ttyUSB0", is_open |-> TRUE, timeout |-> 1]>>

NextFull ==
    \/ FullScanRejected
    \/ FullScanBegin
    \/ ScanVin
    \/ ScanDtc
    \/ ScanReadiness
    \/ ScanLive
    \/ ScanFreeze
    \/ ScanFinish

SpecFull == InitFull /\ [][NextFull]_vars

----------------
(* Claims about the full diagnostic scan                                    *)

P0420 == <<"P","0","4","2","0">>

ScanDone == scan_pc = "done"

\* the codes a pass retrieved: those of the groups of its reply
PassCodes(o) ==
    IF o.kind = "text" THEN { GroupCode(g) : g \in SeqToSet(o.groups) } ELSE {}

ActiveSet    == PassCodes(scan_in.x.active)
PendingSet   == PassCodes(scan_in.x.pending)
PermanentSet == PassCodes(scan_in.x.permanent)

\* the steps of the scan in which a call failed
FailedSteps ==
    LET x == scan_in.x
    IN  (IF x.vin \in {"empty", "raise"} THEN {"vin"} ELSE {})
        \cup (IF "raise" \in {x.active.kind, x.pending.kind, x.permanent.kind}
              THEN {"dtc"} ELSE {})
        \cup (IF x.readiness = "raise" THEN {"readiness"} ELSE {})
        \cup (IF x.live = "raise" THEN {"live"} ELSE {})
        \cup (IF x.freeze = "raise" THEN {"freeze"} ELSE {})

ListedCodes == { scan_out.trouble_codes[i].code : i \in 1..Len(scan_out.trouble_codes) }

\* C5: a failure in one step of a full scan stops no other step: the result
\* holds the data of every step that succeeded, has status "partial" and
\* carries exactly one error message per failed step.
Orig_C5 ==
    ScanDone =>
        /\ scan_in.x.vin = "ok" => scan_out.vehicle_info = VinValue
        /\ "dtc" \notin FailedSteps
              => ListedCodes = ActiveSet \cup PendingSet \cup PermanentSet
        /\ scan_in.x.readiness = "ok" => scan_out.readiness_monitors = MonitorsValue
        /\ scan_in.x.live = "ok" => scan_out.live_parameters = LiveValue
        /\ FailedSteps # {} => scan_out.status = "partial"
        /\ Len(scan_out.error_messages) = Cardinality(FailedSteps)

\* C6: in the trouble-code list of a full scan each code appears at most
\* once across the active, pending and permanent passes, with the status of
\* the highest-priority pass that reported it (Active, then Pending, then
\* Permanent); P0420 seen by two passes is listed once.
Thm_C6 ==
    ScanDone =>
        LET tc == scan_out.trouble_codes
        IN  /\ \A i, j \in 1..Len(tc) : i # j => tc[i].code # tc[j].code
            /\ \A i \in 1..Len(tc) :
                  /\ tc[i].code \in ActiveSet \cup PendingSet \cup PermanentSet
                  /\ tc[i].status =
                        IF tc[i].code \in ActiveSet THEN "Active"
                        ELSE IF tc[i].code \in PendingSet THEN "Pending"
                        ELSE "Permanent"
            /\ "dtc" \notin FailedSteps
                  => ListedCodes = ActiveSet \cup PendingSet \cup PermanentSet

Witness_C6 ==
    /\ ScanDone
    /\ P0420 \in ActiveSet /\ P0420 \in PendingSet
    /\ Cardinality({ i \in 1..Len(scan_out.trouble_codes) :
                       scan_out.trouble_codes[i].code = P0420 }) = 1
    /\ \E i \in 1..Len(scan_out.trouble_codes) :
          scan_out.trouble_codes[i] =
              [code |-> P0420, system |-> "Powertrain (Engine/Transmission)",
               severity |-> "Moderate", status |-> "Active"]

\* the scan is between its start and its return
ScanRunning == scan_pc \in {"vin", "dtc", "readiness", "live", "freeze", "health"}

\* C19: a full diagnostic scan started while the scanner is connected
\* always returns a result and never raises, whatever subset of steps is
\* requested and whichever steps fail: at every step it holds a response
\* and can go on; its status is "completed" exactly when error_messages is
\* empty and "partial" otherwise.
Thm_C19 ==
    /\ ScanRunning => /\ scan_out.status = "partial"
                      /\ ENABLED <<NextFull>>_vars
    /\ ScanDone =>
          /\ scan_out.status \in {"completed", "partial"}
          /\ scan_out.status = "completed" <=> scan_out.error_messages = <<>>
          /\ scan_out.status = "partial" <=> scan_out.error_messages # <<>>

\* every optional step was requested; the VIN, the second trouble-code
\* pass, the readiness and the live-parameter calls raised
Witness_C19 ==
    /\ ScanDone
    /\ scan_in.req = [include_vin |-> TRUE, include_live_parameters |-> TRUE,
                      include_freeze_frame |-> TRUE]
    /\ FailedSteps = {"vin", "dtc", "readiness", "live"}
    /\ scan_out.status = "partial" /\ Len(scan_out.error_messages) = 4

\* C7: overall_health is "critical" if a code retrieved during the scan has
\* Critical severity, otherwise "warning" if any pass retrieved a code,
\* otherwise "good"; it is "good" only when no pass retrieved a code.
Orig_C7 ==
    ScanDone =>
        LET retrieved == ActiveSet \cup PendingSet \cup PermanentSet
        IN  scan_out.overall_health =
                IF \E c \in retrieved : get_dtc_severity(c) = "Critical" THEN "critical"
                ELSE IF retrieved # {} THEN "warning"
                ELSE "good"

----------------------------------------------------------------------------
(* The PID registry: _apply_pid_formula, _get_pid_unit and                  *)
(* _get_pid_description. A PID is the text of its four hex digits; a float  *)
(* is the fraction num/den of two integers, den > 0.                        *)

PID_0104 == <<"0","1","0","4">>
PID_0105 == <<"0","1","0","5">>
PID_0106 == <<"0","1","0","6">>
PID_0107 == <<"0","1","0","7">>
PID_010B == <<"0","1","0","B">>
PID_010C == <<"0","1","0","C">>
PID_010D == <<"0","1","0","D">>
PID_010E == <<"0","1","0","E">>
PID_010F == <<"0","1","0","F">>
PID_0110 == <<"0","1","1","0">>
PID_0111 == <<"0","1","1","1">>
PID_0133 == <<"0","1","3","3">>
PID_0142 == <<"0","1","4","2">>
PID_0143 == <<"0","1","4","3">>
PID_0144 == <<"0","1","4","4">>
PID_0145 == <<"0","1","4","5">>
PID_0146 == <<"0","1","4","6">>
PID_0147 == <<"0","1","4","7">>
PID_0149 == <<"0","1","4","9">>
PID_014A == <<"0","1","4","A">>
PID_015C == <<"0","1","5","C">>
PID_0100 == <<"0","1","0","0">>
PID_011F == <<"0","1","1","F">>
PID_01FF == <<"0","1","F","F">>

\* the keys of the three dictionaries
RegistryPids ==
    { PID_0104, PID_0105, PID_0106, PID_0107, PID_010B, PID_010C, PID_010D, PID_010E, PID_010F, PID_0110, PID_0111,
      PID_0133, PID_0142, PID_0143, PID_0144, PID_0145, PID_0146, PID_0147, PID_0149, PID_014A, PID_015C }

\* PIDs that are in none of them
UnknownPids == { PID_0100, PID_011F, PID_01FF }

Frac(n, d) == [num |-> n, den |-> d]

\* x - 40
minus_40(x) == Frac(x - 40, 1)

\* a plausible slip: the divisor 256 for 255
percent_of_256(x) == Frac(x * 100, 256)

\* x * 100 / 255
percent_of_255(x) == Frac(x * 100, 255)

\* (x >> 8) * 256 + (x & 0xFF)
raw16(x) == (x \div 256) * 256 + BitAnd(x, 255)

\* a plausible slip: an unknown PID reads as 0
default_formula_zero(x) == Frac(0, 1)

\* lambda x: x, the default of formulas.get
default_formula(x) == Frac(x, 1)

_apply_pid_formula(pid, raw_value) ==
    CASE pid \in {PID_0105, PID_010F, PID_0146, PID_015C} -> minus_40(raw_value)
      [] pid = PID_010C -> Frac(raw16(raw_value), 4)
      [] pid \in {PID_010D, PID_010B} -> Frac(raw_value, 1)
      [] pid \in {PID_0111, PID_0104, PID_0145, PID_0147, PID_0149, PID_014A}
            -> percent_of_255(raw_value)
      [] pid \in {PID_0106, PID_0107} -> Frac((raw_value - 128) * 100, 128)
      [] pid = PID_010E -> Frac(raw_value - 128, 2)
      [] pid = PID_0110 -> Frac(raw16(raw_value), 100)
      [] pid = PID_0133 -> Frac(raw_value, 200)
      [] pid = PID_0142 -> Frac(raw16(raw_value), 1000)
      [] pid = PID_0143 -> Frac(raw16(raw_value) * 100, 255)
      [] pid = PID_0144 -> Frac(raw16(raw_value), 32768)
      [] OTHER -> default_formula(raw_value)

\* units.get(pid, ""); degC stands for the degree sign followed by C
_get_pid_unit(pid) ==
    CASE pid = PID_0104 -> "%"
      [] pid = PID_0105 -> "degC"
      [] pid = PID_0106 -> "%"
      [] pid = PID_0107 -> "%"
      [] pid = PID_010B -> "kPa"
      [] pid = PID_010C -> "RPM"
      [] pid = PID_010D -> "km/h"
      [] pid = PID_010E -> "degrees"
      [] pid = PID_010F -> "degC"
      [] pid = PID_0110 -> "g/s"
      [] pid = PID_0111 -> "%"
      [] pid = PID_0133 -> "kPa"
      [] pid = PID_0142 -> "V"
      [] pid = PID_0143 -> "%"
      [] pid = PID_0144 -> "ratio"
      [] pid = PID_0145 -> "%"
      [] pid = PID_0146 -> "degC"
      [] pid = PID_0147 -> "%"
      [] pid = PID_0149 -> "%"
      [] pid = PID_014A -> "%"
      [] pid = PID_015C -> "degC"
      [] OTHER -> ""

\* descriptions.get(pid, f"PID {pid}"): the pieces of the text
_get_pid_description(pid) ==
    CASE pid = PID_0104 -> <<"Calculated Engine Load">>
      [] pid = PID_0105 -> <<"Engine Coolant Temperature">>
      [] pid = PID_0106 -> <<"Short Term Fuel Trim Bank 1">>
      [] pid = PID_0107 -> <<"Long Term Fuel Trim Bank 1">>
      [] pid = PID_010B -> <<"Intake Manifold Absolute Pressure">>
      [] pid = PID_010C -> <<"Engine RPM">>
      [] pid = PID_010D -> <<"Vehicle Speed">>
      [] pid = PID_010E -> <<"Timing Advance">>
      [] pid = PID_010F -> <<"Intake Air Temperature">>
      [] pid = PID_0110 -> <<"MAF Air Flow Rate">>
      [] pid = PID_0111 -> <<"Throttle Position">>
      [] pid = PID_0133 -> <<"Absolute Barometric Pressure">>
      [] pid = PID_0142 -> <<"Control Module Voltage">>
      [] pid = PID_0143 -> <<"Absolute Load Value">>
      [] pid = PID_0144 -> <<"Fuel/Air Commanded Equivalence Ratio">>
      [] pid = PID_0145 -> <<"Relative Throttle Position">>
      [] pid = PID_0146 -> <<"Ambient Air Temperature">>
      [] pid = PID_0147 -> <<"Absolute Throttle Position B">>
      [] pid = PID_0149 -> <<"Accelerator Pedal Position D">>
      [] pid = PID_014A -> <<"Accelerator Pedal Position E">>
      [] pid = PID_015C -> <<"Engine Oil Temperature">>
      [] OTHER -> <<"PID ">> \o pid

----------------------------------------------------------------------------
(* ELM327Scanner._parse_sensor_value and get_sensor_data. A reply is the    *)
(* list of its lines, response.split('\n'); the empty reply is <<>>.        *)

Mode1Marker == <<"4", "1">>

NoData == <<"N","O"," ","D","A","T","A">>

\* the loop over the lines: the first line that passes the tests decides
\* Python's None where the other values are records
NoReading == [none |-> TRUE]

RECURSIVE _parse_sensor_value(_, _)
_parse_sensor_value(pid, lines) ==
    IF lines = <<>> THEN NoReading
    ELSE LET line       == Head(lines)
             can_data   == Strip(line)
             pid_pos    == Find(can_data, Mode1Marker \o Slice(pid, 2, 4))
             data_start == pid_pos + 4
         IN  IF /\ Contains(line, Mode1Marker)
                /\ Contains(line, Slice(pid, 2, 4))
                /\ pid_pos >= 0
                /\ data_start + 2 <= Len(can_data)
             THEN LET value == Int16(Slice(can_data, data_start, data_start + 2))
                  IN  IF value = -1 THEN NoReading   \* ValueError, caught
                      ELSE _apply_pid_formula(pid, value)
             ELSE _parse_sensor_value(pid, Tail(lines))

\* what get_sensor_data returns when _send_command raised (raised) or
\* returned the reply lines
get_sensor_data(pid, raised, lines) ==
    IF raised THEN NoReading
    ELSE IF lines # <<>> /\ ~StartsWith(lines[1], NoData)
    THEN LET value == _parse_sensor_value(pid, lines)
         IN  IF value # NoReading
             THEN [pid |-> pid, value |-> value, unit |-> _get_pid_unit(pid),
                   description |-> _get_pid_description(pid)]
             ELSE NoReading
    ELSE NoReading

----------------------------------------------------------------------------
(* ELM327Scanner._parse_vin, _parse_calibration_ids and get_vehicle_info.   *)
(* Decoded text is the sequence of its character codes.                     *)

Mode9Marker == <<"4", "9">>

\* str.split(): the maximal runs of non-blank characters
RECURSIVE Tokens(_, _, _)
Tokens(s, cur, acc) ==
    IF s = <<>> THEN (IF cur = <<>> THEN acc ELSE Append(acc, cur))
    ELSE IF Head(s) = " "
    THEN Tokens(Tail(s), <<>>, IF cur = <<>> THEN acc ELSE Append(acc, cur))
    ELSE Tokens(Tail(s), Append(cur, Head(s)), acc)

Split(s) == Tokens(s, <<>>, <<>>)

\* ''.join(parts)
RECURSIVE Join(_)
Join(parts) == IF parts = <<>> THEN <<>> ELSE Head(parts) \o Join(Tail(parts))

\* bytes.fromhex(text): the byte values, None for ValueError
FromHex(text) ==
    IF Len(text) % 2 = 1 \/ \E i \in 1..Len(text) : ~IsHexChar(text[i]) THEN None
    ELSE [i \in 1..(Len(text) \div 2) |-> 16 * HexVal(text[2 * i - 1]) + HexVal(text[2 * i])]

\* bytes.decode('ascii'): None for UnicodeDecodeError
AsciiDecode(bytes) ==
    IF \E i \in 1..Len(bytes) : bytes[i] >= 128 THEN None ELSE bytes

\* the character codes str.strip() removes
Whitespace == {9, 10, 11, 12, 13, 28, 29, 30, 31, 32}

RECURSIVE StripCodes(_)
StripCodes(t) ==
    IF t = <<>> THEN t
    ELSE IF Head(t) \in Whitespace THEN StripCodes(Tail(t))
    ELSE IF t[Len(t)] \in Whitespace THEN StripCodes(SubSeq(t, 1, Len(t) - 1))
    ELSE t

\* the hex text of a line to its stripped ASCII text; None when either
\* conversion raises
decode_hex_ascii(line) ==
    LET data == Tail(Split(line))      \* line.split()[1:]
        raw  == FromHex(Join(data))
    IN  IF raw = None THEN None
        ELSE IF AsciiDecode(raw) = None THEN None
        ELSE StripCodes(AsciiDecode(raw))

\* the first line that starts with 49 decides
RECURSIVE _parse_vin(_)
_parse_vin(lines) ==
    IF lines = <<>> THEN <<>>
    ELSE IF StartsWith(Head(lines), Mode9Marker)
    THEN (IF decode_hex_ascii(Head(lines)) = None THEN <<>>
          ELSE decode_hex_ascii(Head(lines)))
    ELSE _parse_vin(Tail(lines))

\* every line that starts with 49 adds an id; one failing conversion
\* empties the list
_parse_calibration_ids(lines) ==
    LET marked == SelectSeq(lines, LAMBDA l : StartsWith(l, Mode9Marker))
    IN  IF \E i \in 1..Len(marked) : decode_hex_ascii(marked[i]) = None THEN <<>>
        ELSE [i \in 1..Len(marked) |-> decode_hex_ascii(marked[i])]

\* a plausible slip: the parsers let a failing conversion through, and the
\* handler of get_vehicle_info answers with the empty dictionary
get_vehicle_info_abort_on_decode(o1, o2) ==
    LET has(o) == o.lines # <<>> /\ ~StartsWith(o.lines[1], NoData)
        bad(o) == \E i \in 1..Len(o.lines) :
                     /\ StartsWith(o.lines[i], Mode9Marker)
                     /\ decode_hex_ascii(o.lines[i]) = None
    IN  IF o1.kind = "raise" \/ o2.kind = "raise" \/ (has(o1) /\ bad(o1)) \/ (has(o2) /\ bad(o2))
        THEN [keys |-> {}, vin |-> <<>>, calibration_ids |-> <<>>]
        ELSE [keys |-> (IF has(o1) THEN {"vin"} ELSE {})
                       \cup (IF has(o2) THEN {"calibration_ids"} ELSE {}),
              vin |-> IF has(o1) THEN _parse_vin(o1.lines) ELSE <<>>,
              calibration_ids |-> IF has(o2) THEN _parse_calibration_ids(o2.lines)
                                  ELSE <<>>]

\* the dictionary get_vehicle_info returns, as the set of its keys and the
\* two values; o1 and o2 are what the sends of 0902 and 0904 did
get_vehicle_info(o1, o2) ==
    LET has(o) == o.lines # <<>> /\ ~StartsWith(o.lines[1], NoData)
    IN  IF o1.kind = "raise" \/ o2.kind = "raise"
        THEN [keys |-> {}, vin |-> <<>>, calibration_ids |-> <<>>]
        ELSE [keys |-> (IF has(o1) THEN {"vin"} ELSE {})
                       \cup (IF has(o2) THEN {"calibration_ids"} ELSE {}),
              vin |-> IF has(o1) THEN _parse_vin(o1.lines) ELSE <<>>,
              calibration_ids |-> IF has(o2) THEN _parse_calibration_ids(o2.lines)
                                  ELSE <<>>]

----------------------------------------------------------------------------
(* The read operations on the shared scanner: _send_command, get_dtc_codes, *)
(* get_sensor_data and get_vehicle_info, called between connects and        *)
(* disconnects.                                                             *)

MaxReads == 2

\* the commands the read operations write
ReadCmds == {"03", "04", "0105", "010C", "0902", "0904"}

\* the text of a PID as the command written
command_text(pid) == IF pid = PID_0105 THEN "0105" ELSE "010C"

ReadCount(w) == Cardinality({ i \in 1..Len(w) : w[i] \in ReadCmds })

OkLine == <<"O","K">>

\* a sensor reply 7E8 03 41 <pid> 5A
SensorLine(pid) == <<"7","E","8","0","3">> \o Mode1Marker \o Slice(pid, 2, 4) \o <<"5","A">>

\* a VIN reply printed with spaces and without header: 49 02 01 57 31
VinLine == <<"4","9"," ","0","2"," ","0","1"," ","5","7"," ","3","1">>

\* what one _send_command does on an open handle: it returns reply lines,
\* or the serial library raises before or after the command went out
SendOutcome(replies) ==
    [kind : {"reply"}, lines : replies, wrote : {TRUE}]
    \cup [kind : {"raise"}, lines : {<<>>}, wrote : BOOLEAN]

\* the guard of _send_command; a closed handle makes the library raise
\* before anything is written
Rejected == ~connected \/ serial_conn = 0

NotConnectedError == [kind |-> "raise", lines |-> <<>>, wrote |-> FALSE]

\* a plausible slip: the send goes out without the guard
send_unguarded(replies) == SendOutcome(replies)

\* the outcomes of one send in the current state
Outcomes(replies) ==
    IF Rejected \/ ~handles[serial_conn].is_open THEN {NotConnectedError}
    ELSE SendOutcome(replies)

Written(cmd, o) == IF o.wrote THEN <<cmd>> ELSE <<>>

ReadCall(op, arg, sent, raised, result) ==
    /\ wire' = wire \o sent
    /\ last_call' = [NoCall EXCEPT !.op = op, !.arg = arg, !.sent = sent,
                                   !.raised = raised, !.result = result]
    /\ UNCHANGED <<port, connected, serial_conn, handles, fast_mode,
                   os_ports, bt_paired, exConn>>

\* a direct _send_command (clear codes, debug command)
SendCommandCall ==
    /\ ReadCount(wire) < MaxReads
    /\ \E o \in Outcomes({<<>>, <<OkLine>>}) :
          ReadCall("send", "04", Written("04", o), o.kind = "raise",
                   IF o.kind = "raise" THEN None ELSE o.lines)

GetDtcCodesCall ==
    /\ ReadCount(wire) < MaxReads
    /\ \E o \in Outcomes({<<>>, <<NoDataLine>>,
                          <<ScanHeader \o Mode3Marker \o G0420>>}) :
          ReadCall("get_dtc_codes", "", Written("03", o), FALSE,
                   get_dtc_codes(o.kind = "raise", o.lines))

GetSensorDataCall ==
    /\ ReadCount(wire) < MaxReads
    /\ \E pid \in {PID_0105, PID_010C} :
       \E o \in Outcomes({<<>>, <<NoDataLine>>, <<SensorLine(pid)>>}) :
          ReadCall("get_sensor_data", command_text(pid),
                   Written(command_text(pid), o), FALSE,
                   get_sensor_data(pid, o.kind = "raise", o.lines))

\* 0902, then 0904 unless the first send raised
GetVehicleInfoCall ==
    /\ ReadCount(wire) < MaxReads
    /\ \E o1 \in Outcomes({<<NoDataLine>>, <<VinLine>>}) :
          IF o1.kind = "raise"
          THEN ReadCall("get_vehicle_info", "", Written("0902", o1), FALSE,
                        get_vehicle_info(o1, o1))
          ELSE \E o2 \in Outcomes({<<>>, <<NoDataLine>>}) :
                  ReadCall("get_vehicle_info", "",
                           Written("0902", o1) \o Written("0904", o2), FALSE,
                           get_vehicle_info(o1, o2))

\* the operating system lists one USB adapter and one paired Bluetooth one
InitOps ==
    /\ DtcIdle /\ ReplyIdle /\ SendIdle /\ ScannerNew
    /\ os_ports = << [device |-> "/dev/ttyUSB0", arm |-> "usb", keyword |-> TRUE] >>
    /\ bt_paired = <<PairedEntry>>
    /\ last_call = NoCall
    /\ FullIdle /\ ParseIdle /\ LoopIdle /\ RouterIdle

NextOps ==
    \/ Connect
    \/ Disconnect
    \/ SendCommandCall
    \/ GetDtcCodesCall
    \/ GetSensorDataCall
    \/ GetVehicleInfoCall

SpecOps == InitOps /\ [][NextOps]_vars

----------------------------------------------------------------------------
(* Claims about the read operations                                         *)

ReadOps == {"send", "get_dtc_codes", "get_sensor_data", "get_vehicle_info"}

\* what a read operation gives when its send was refused
RefusedResult(c) ==
    CASE c.op = "send"             -> c.raised
      [] c.op = "get_dtc_codes"    -> c.result = <<>>
      [] c.op = "get_sensor_data"  -> c.result = NoReading
      [] c.op = "get_vehicle_info" -> c.result.keys = {}

\* C11: while the scanner is not connected (before a successful connect,
\* after disconnect, after a failed connect) every read operation (send,
\* get_dtc_codes, get_sensor_data, get_vehicle_info) is refused and writes
\* nothing to a serial handle.
Thm_C11 ==
    [][ (~connected /\ last_call'.op \in ReadOps) =>
            /\ wire' = wire
            /\ last_call'.sent = <<>>
            /\ RefusedResult(last_call') ]_vars

\* a read after a connect that failed in its handshake or after a disconnect
Witness_C11 ==
    /\ ~connected /\ serial_conn # 0 /\ wire # <<>>
    /\ last_call.op = "get_dtc_codes"
    /\ last_call.sent = <<>> /\ last_call.result = <<>>

----------------------------------------------------------------------------
(* Claims about the serial handle                                           *)

OpenHandles == { i \in 1..Len(handles) : handles[i].is_open }

\* C12: after any sequence of connect and disconnect calls on one scanner,
\* connects while connected and failing connects included, at most one
\* serial handle opened by the scanner is open.
Orig_C12 == Cardinality(OpenHandles) <= 1

----------------------------------------------------------------------------
(* The event loop: every handler of api/routers/scanner.py and the          *)
(* background scan session are coroutines (async def) that call the         *)
(* blocking scanner methods and contain no await, so a coroutine that has   *)
(* started runs to its end before the loop starts another one.              *)

MaxTasks == 3

Tasks == 1..MaxTasks

\* the handlers that send: get_dtc_codes (one send), get_vehicle_info (two
\* sends) and start_scan_session, which sends nothing itself and adds the
\* background task perform_scan_session (sensors, codes, vehicle info)
TaskKinds == {"dtc", "vehicle-info", "scan-session"}

handler_sends(kind) ==
    CASE kind = "dtc"          -> 1
      [] kind = "vehicle-info" -> 2
      [] kind = "scan-session" -> 0

\* perform_scan_session with include_dtc and include_vehicle_info
background_sends == 3

\* a plausible slip: the handlers run in worker threads (def instead of
\* async def), so any of them may step at any time
loop_is_free_threads(t) == TRUE

\* the loop can run a step of t: no other coroutine is between its start
\* and its end
loop_is_free(t) ==
    \A u \in Tasks \ {t} : task_pc[u] \notin {"running", "sending", "bg-running", "bg-sending"}

\* the loop starts the handler of a request, or a queued background task
TaskStart(t) ==
    /\ task_pc[t] \in {"ready", "queued"} /\ loop_is_free(t)
    /\ task_pc' = [task_pc EXCEPT ![t] = IF @ = "ready" THEN "running" ELSE "bg-running"]
    /\ task_sends' = [task_sends EXCEPT
                         ![t] = IF task_pc[t] = "ready" THEN handler_sends(task_kind[t])
                                ELSE background_sends]
    /\ UNCHANGED <<task_kind, exLoop>>

\* _send_command writes its command
TaskSendWrite(t) ==
    /\ task_pc[t] \in {"running", "bg-running"} /\ task_sends[t] > 0 /\ loop_is_free(t)
    /\ task_pc' = [task_pc EXCEPT ![t] = IF @ = "running" THEN "sending" ELSE "bg-sending"]
    /\ UNCHANGED <<task_kind, task_sends, exLoop>>

\* _send_command returns (or raises) after polling with time.sleep
TaskSendReturn(t) ==
    /\ task_pc[t] \in {"sending", "bg-sending"} /\ loop_is_free(t)
    /\ task_pc' = [task_pc EXCEPT ![t] = IF @ = "sending" THEN "running" ELSE "bg-running"]
    /\ task_sends' = [task_sends EXCEPT ![t] = @ - 1]
    /\ UNCHANGED <<task_kind, exLoop>>

\* the coroutine ends; start_scan_session leaves its background task queued
TaskEnd(t) ==
    /\ task_pc[t] \in {"running", "bg-running"} /\ task_sends[t] = 0 /\ loop_is_free(t)
    /\ task_pc' = [task_pc EXCEPT
                      ![t] = IF @ = "running" /\ task_kind[t] = "scan-session"
                             THEN "queued" ELSE "done"]
    /\ UNCHANGED <<task_kind, task_sends, exLoop>>

InitLoop ==
    /\ DtcIdle /\ ReplyIdle /\ SendIdle /\ ConnIdle /\ FullIdle /\ ParseIdle /\ RouterIdle
    /\ fast_mode = FALSE /\ wire = <<>>
    /\ port = "/dev/ttyUSB0" /\ connected = TRUE /\ serial_conn = 1
    /\ handles = <<[port |-> "/dev/ttyUSB0", is_open |-> TRUE, timeout |-> 1]>>
    /\ task_kind \in [Tasks -> TaskKinds]
    /\ task_pc = [t \in Tasks |-> "ready"]
    /\ task_sends = [t \in Tasks |-> 0]

NextLoop ==
    \E t \in Tasks :
        \/ TaskStart(t)
        \/ TaskSendWrite(t)
        \/ TaskSendReturn(t)
        \/ TaskEnd(t)

SpecLoop == InitLoop /\ [][NextLoop]_vars

\* the tasks with a command written whose send has not returned
InProgress == { t \in Tasks : task_pc[t] \in {"sending", "bg-sending"} }

\* C13: on the shared scanner there is never more than one send in
\* progress: between the write of a command and the return of its send no
\* other command is written, for every interleaving of HTTP requests and
\* background scan sessions.
Thm_C13 ==
    /\ [](Cardinality(InProgress) <= 1)
    /\ [][ \A t \in Tasks :
              (task_pc[t] \notin {"sending", "bg-sending"}
               /\ task_pc'[t] \in {"sending", "bg-sending"}) => InProgress = {} ]_vars

\* a request handler starts while a background session is queued, and its
\* send is in progress while the session still has all its sends to make
Witness_C13 ==
    \E t, u \in Tasks :
        /\ task_pc[t] = "sending" /\ task_kind[t] = "vehicle-info"
        /\ task_pc[u] = "queued"
        /\ \E v \in Tasks : task_pc[v] = "done" /\ task_kind[v] = "dtc"

----------------------------------------------------------------------------
(* Termination of a send                                                    *)

\* the steps of the polling loop of _send_command / _send_command_fast
SendLoopStep ==
    SendPollRead \/ SendReadError \/ SendPollError \/ SendPollSleep \/ SendDeadline

\* an iteration of the loop that takes time: time.sleep, or a readline that
\* waits for the end of the line
ClockAdvances ==
    /\ SendPollRead \/ SendPollSleep
    /\ snd_elapsed' = snd_elapsed + 1

\* the loop keeps running and the clock keeps moving while it does
SpecSendFair ==
    /\ SpecSend
    /\ WF_vars(SendLoopStep)
    /\ WF_vars(ClockAdvances)

\* the loop reads a line that holds the prompt
ReadsPromptLine ==
    /\ snd_pc = "polling" /\ snd_rx' = snd_rx + 1
    /\ Contains(Strip(Head(rx_buffer)), Prompt)

\* C15: every send on a connected scanner terminates; it returns as soon as
\* a line it reads contains the prompt, or when its deadline (10 s, 3 s in
\* fast mode) has passed, whichever comes first, and in both cases it
\* returns the text accumulated so far.
Thm_C15 ==
    /\ (snd_pc = "polling") ~> (snd_pc \in {"returned", "raised"})
    /\ [][ /\ ReadsPromptLine
              => /\ snd_pc' = "returned"
                 /\ snd_result' = Append(snd_response, Strip(Head(rx_buffer)))
           /\ (snd_pc = "polling" /\ snd_pc' = "returned" /\ snd_rx' = snd_rx /\ ~snd_ioerr')
              => /\ snd_elapsed = IF snd_fast THEN 3 ELSE 10
                 /\ snd_result' = snd_response
           /\ (snd_pc = "polling" /\ snd_pc' = "polling")
              => snd_elapsed' <= IF snd_fast THEN 3 ELSE 10 ]_vars

\* a send in normal mode that read a line without the prompt and returned
\* it when the 10 seconds had passed
Witness_C15 ==
    /\ snd_pc = "returned" /\ connected /\ ~snd_fast /\ ~snd_ioerr
    /\ snd_elapsed = 10 /\ snd_rx = 1
    /\ snd_result = << <<"O","K">> >>

----------------------------------------------------------------------------
(* The timeouts connect opens the port with                                 *)

\* the connection types discovery gives the port connect opened
ClassifiedAs(p) ==
    LET avail == list_available_ports(os_ports, bt_paired)
    IN  { avail[i].connection_type : i \in { k \in 1..Len(avail) : avail[k].port = p } }

\* C14: connect opens the serial port with read and write timeouts of 1
\* second for every endpoint that discovery classifies as usb and of 3
\* seconds for every endpoint that discovery classifies as bluetooth.
Orig_C14 ==
    (last_call.op = "connect" /\ last_call.opened)
    => /\ "usb" \in ClassifiedAs(last_call.open_port) => last_call.open_timeout = 1
       /\ "bluetooth" \in ClassifiedAs(last_call.open_port) => last_call.open_timeout = 3

----------------------------------------------------------------------------
(* The parsers run on given inputs: the PID lookups, get_sensor_data on a   *)
(* Mode 01 reply and get_vehicle_info on a Mode 09 reply.                   *)

RawBytes == 0..255

\* data bytes of a reply: the extremes and values between
SampleBytes == {0, 26, 128, 248, 255}

\* the CAN header and length that precede the data when headers are on
CanHeader == <<"7","E","8","0","4">>

\* the PIDs whose replies are parsed
ReplyPids == {PID_0105, PID_010C, PID_0110, PID_0142}

\* the line a vehicle answers to a Mode 01 request with data bytes a, b:
\* 41, the PID, the bytes
Mode1Reply(header, pid, a, b) ==
    header \o Mode1Marker \o Slice(pid, 2, 4) \o Hex2(a) \o Hex2(b)

\* two vehicle identification numbers, as character codes
SampleVins ==
    { <<49,72,71,67,77,56,50,54,51,51,65,48,48,52,51,53,50>>,    \* 1HGCM82633A004352
      <<87,86,87,90,90,90,49,74,90,88,87,48,48,48,48,48,49>> }   \* WVWZZZ1JZXW000001

\* the bytes per line of a multi-line reply
LineWidths == {4, 6, 9}

\* the hex text of bytes, with or without a blank before each
RECURSIVE HexText(_, _)
HexText(bytes, spaced) ==
    IF bytes = <<>> THEN <<>>
    ELSE (IF spaced THEN <<" ">> ELSE <<>>) \o Hex2(Head(bytes)) \o HexText(Tail(bytes), spaced)

\* line k of a 0902 reply: 49 02, the line number, then its share of the
\* VIN bytes
VinReplyLine(vin, width, k, spaced) ==
    LET from == (k - 1) * width + 1
        to   == IF k * width < Len(vin) THEN k * width ELSE Len(vin)
    IN  Mode9Marker \o HexText(<<2, k>> \o SubSeq(vin, from, to), spaced)

VinReply(vin, width, spaced) ==
    [k \in 1..((Len(vin) + width - 1) \div width) |-> VinReplyLine(vin, width, k, spaced)]

\* the text of a field of a Mode 09 reply, as character codes
FieldTexts == { <<49,72,71>>, <<67,65,76,49>> }        \* 1HG, CAL1

\* what can be wrong with the line that carries it: nothing, a hex digit
\* missing (odd length), a byte that is not ASCII
Defects == {"none", "odd", "non-ascii"}

\* a one-line reply to 0902 (item 2) or 0904 (item 4) carrying a field
FieldLine(item, f) ==
    Mode9Marker \o HexText(<<item, 1>> \o f.text, TRUE)
    \o (CASE f.defect = "none"      -> <<>>
          [] f.defect = "odd"       -> <<" ", "3">>
          [] f.defect = "non-ascii" -> <<" ", "C", "3">>)

\* codes handed to the description and severity lookups: well formed, in
\* lower case, padded, with a separator, with digits too many or too few,
\* with a wrong prefix or digit, blank
MaxCodes == 2

\* codes the scanner can report, one or two for each system of the check
HealthCodes ==
    { <<"P","0","1","7","1">>, <<"P","0","3","0","0">>, <<"P","0","5","0","5">>,
      <<"P","0","4","2","0">>, <<"P","0","6","0","1">>, <<"P","0","7","0","0">>,
      <<"B","0","0","0","1">>, <<"C","0","0","0","5">>, <<"C","0","0","3","5">>,
      <<"U","0","1","0","0">> }

CodeLists == UNION { [1..n -> HealthCodes] : n \in 0..MaxCodes }

\* the coolant reading: none, or the temperature in degrees
CoolantReadings == { <<>>, <<0>>, <<90>>, <<105>>, <<115>> }

CleanInputs ==
    { <<"P","0","3","0","0">>, <<"p","0","3","0","0">>, <<" ","U","0","1","0","0"," ">>,
      <<"P","-","0","3","0","0">>, <<"P","0","0","3","0","0">>,
      <<"P","0","0","1","3","0","0">>, <<"P","0","0","0","4","2","0">>,
      <<"P","1","2","3","4","5">>, <<"P","0","3","0">>, <<"X","0","3","0","0">>,
      <<"P","0","3","G","0">>, <<"0","3","0","0">>, <<" ">>, <<"-">>, <<>> }

ParseInputs ==
    [op : {"formula"}, pid : RegistryPids \cup UnknownPids, raw : RawBytes]
    \cup [op : {"sensor"}, pid : ReplyPids, header : {<<>>, CanHeader},
          a : SampleBytes, b : SampleBytes]
    \cup [op : {"vin"}, vin : SampleVins, width : LineWidths, spaced : BOOLEAN]
    \cup [op : {"info"}, vin : [text : FieldTexts, defect : Defects],
          cal : [text : FieldTexts, defect : Defects]]
    \cup [op : {"clean"}, raw : CleanInputs]
    \cup [op : {"health"}, conn : BOOLEAN, codes : CodeLists, temp : CoolantReadings]

\* the three lookups get_sensor_data makes for a PID and a raw value
PidLookup ==
    /\ parse_in.op = "formula" /\ parse_out = NoParse
    /\ parse_out' = [op |-> "formula",
                     value |-> _apply_pid_formula(parse_in.pid, parse_in.raw),
                     unit |-> _get_pid_unit(parse_in.pid),
                     description |-> _get_pid_description(parse_in.pid)]
    /\ UNCHANGED <<parse_in, exParse>>

\* get_sensor_data on the reply _send_command returned
GetSensorData ==
    /\ parse_in.op = "sensor" /\ parse_out = NoParse
    /\ parse_out' = [op |-> "sensor",
                     reading |-> get_sensor_data(parse_in.pid, FALSE,
                                    <<Mode1Reply(parse_in.header, parse_in.pid,
                                                 parse_in.a, parse_in.b)>>)]
    /\ UNCHANGED <<parse_in, exParse>>

\* get_vehicle_info on the reply to 0902, the vehicle answering NO DATA to
\* 0904
GetVehicleInfo ==
    /\ parse_in.op = "vin" /\ parse_out = NoParse
    /\ parse_out' = [op |-> "vin",
                     info |-> get_vehicle_info(
                                [kind |-> "reply", wrote |-> TRUE,
                                 lines |-> VinReply(parse_in.vin, parse_in.width,
                                                    parse_in.spaced)],
                                [kind |-> "reply", wrote |-> TRUE, lines |-> <<NoData>>])]
    /\ UNCHANGED <<parse_in, exParse>>

\* get_vehicle_info on one-line replies to 0902 and 0904
GetVehicleInfoFields ==
    /\ parse_in.op = "info" /\ parse_out = NoParse
    /\ parse_out' = [op |-> "info",
                     info |-> get_vehicle_info(
                                [kind |-> "reply", wrote |-> TRUE,
                                 lines |-> <<FieldLine(2, parse_in.vin)>>],
                                [kind |-> "reply", wrote |-> TRUE,
                                 lines |-> <<FieldLine(4, parse_in.cal)>>])]
    /\ UNCHANGED <<parse_in, exParse>>

\* _clean_dtc_code on a code
Systems ==
    { "engine", "transmission", "emissions", "fuel_system", "cooling_system",
      "electrical_system", "brake_system", "exhaust_system" }

\* VehicleHealthResponse(): every system "unknown"
VehicleHealthResponse == [s \in Systems |-> "unknown"]

AllSystems(level) == [s \in Systems |-> level]

\* the chain of startswith tests: the systems a code is counted for
systems_of(code) ==
    LET two == SubSeq(code, 1, 3)
    IN  IF two \in { <<"P","0","0">>, <<"P","0","1">>, <<"P","0","2">> } THEN {"fuel_system"}
        ELSE IF two = <<"P","0","3">> THEN {"engine"}
        ELSE IF two = <<"P","0","4">> THEN {"emissions", "exhaust_system"}
        ELSE IF two = <<"P","0","5">> THEN {"engine"}
        ELSE IF two = <<"P","0","6">> THEN {"electrical_system"}
        ELSE IF two \in { <<"P","0","7">>, <<"P","0","8">>, <<"P","0","9">> }
             THEN {"transmission"}
        ELSE IF two = <<"P","0","A">> THEN {"electrical_system"}
        ELSE IF code[1] = "B" THEN {"electrical_system"}
        ELSE IF code[1] = "C" THEN {"brake_system"}
        ELSE IF code[1] = "U" THEN {"electrical_system"}
        ELSE {}

status_level(code) == IF get_dtc_severity(code) = "Critical" THEN "critical" ELSE "warning"

\* the loop over the codes: each code writes the level of its own severity
\* into its systems
RECURSIVE apply_codes(_, _)
apply_codes(health, dtc_codes) ==
    IF dtc_codes = <<>> THEN health
    ELSE apply_codes([s \in Systems |->
                        IF s \in systems_of(Head(dtc_codes)) THEN status_level(Head(dtc_codes))
                        ELSE health[s]],
                     Tail(dtc_codes))

\* the coolant temperature test
cooling(health, dtc_codes, temp) ==
    IF temp # <<>> /\ temp[1] # 0
    THEN [health EXCEPT !["cooling_system"] =
              IF temp[1] > 110 THEN "critical"
              ELSE IF temp[1] > 100 THEN "warning"
              ELSE IF dtc_codes = <<>> THEN "good" ELSE @]
    ELSE health

get_vehicle_health_check(conn, dtc_codes, temp) ==
    IF ~conn THEN VehicleHealthResponse
    ELSE IF \E i \in 1..Len(dtc_codes) : get_dtc_severity(dtc_codes[i]) = "raise"
    THEN AllSystems("warning")
    ELSE cooling(apply_codes(AllSystems(IF dtc_codes = <<>> THEN "good" ELSE "warning"),
                             dtc_codes),
                 dtc_codes, temp)

HealthCheck ==
    /\ parse_in.op = "health" /\ parse_out = NoParse
    /\ parse_out' = [op |-> "health",
                     result |-> get_vehicle_health_check(parse_in.conn, parse_in.codes,
                                                         parse_in.temp)]
    /\ UNCHANGED <<parse_in, exParse>>

CleanDtcCode ==
    /\ parse_in.op = "clean" /\ parse_out = NoParse
    /\ parse_out' = [op |-> "clean", result |-> _clean_dtc_code(parse_in.raw)]
    /\ UNCHANGED <<parse_in, exParse>>

InitParse ==
    /\ DtcIdle /\ ReplyIdle /\ SendIdle /\ ScannerNew /\ ConnIdle /\ FullIdle /\ LoopIdle
    /\ RouterIdle
    /\ parse_in \in ParseInputs
    /\ parse_out = NoParse

NextParse ==
    \/ PidLookup
    \/ GetSensorData
    \/ GetVehicleInfo
    \/ GetVehicleInfoFields
    \/ CleanDtcCode
    \/ HealthCheck

SpecParse == InitParse /\ [][NextParse]_vars

FracEq(f, n, d) == f.num * d = n * f.den

FracLe(f, n, d) == f.num * d <= n * f.den

\* C16: the PID formulas map raw byte 0x00 of PID 0105 to -40 and raw byte
\* 0xFF of PID 0111 to 100; for every raw byte r in 0..255 the coolant
\* temperature is r - 40 and the throttle position is r * 100 / 255, which
\* stays within 0..100.
Thm_C16 ==
    parse_out.op = "formula" =>
        /\ parse_in.pid = PID_0105 =>
              /\ FracEq(parse_out.value, parse_in.raw - 40, 1)
              /\ parse_in.raw = 0 => FracEq(parse_out.value, -40, 1)
        /\ parse_in.pid = PID_0111 =>
              /\ FracEq(parse_out.value, parse_in.raw * 100, 255)
              /\ FracLe(Frac(0, 1), parse_out.value.num, parse_out.value.den)
              /\ FracLe(parse_out.value, 100, 1)
              /\ parse_in.raw = 255 => FracEq(parse_out.value, 100, 1)

Witness_C16 ==
    /\ parse_out.op = "formula" /\ parse_in.pid = PID_0111 /\ parse_in.raw = 255
    /\ parse_out.value.num = 100 * parse_out.value.den


\* the PIDs whose reading is made of two data bytes, and their divisors
TwoBytePids == {PID_010C, PID_0110, PID_0142}

Divisor(pid) ==
    CASE pid = PID_010C -> 4
      [] pid = PID_0110 -> 100
      [] pid = PID_0142 -> 1000

\* C17: for a Mode 01 reply to a two-byte PID (010C, 0110, 0142)
\* get_sensor_data computes the reading from the 16-bit value 256*A + B of
\* the two data bytes A, B that follow the echoed 41+PID: RPM is that value
\* / 4, MAF / 100, voltage / 1000.
Orig_C17 ==
    (parse_out.op = "sensor" /\ parse_in.pid \in TwoBytePids)
    => /\ parse_out.reading # NoReading
       /\ FracEq(parse_out.reading.value, 256 * parse_in.a + parse_in.b,
                 Divisor(parse_in.pid))

\* C18: for a 0902 reply that spreads the VIN over several lines,
\* get_vehicle_info returns as VIN the ASCII decoding of the data bytes of
\* all lines concatenated in line order (17 characters), not the decoding
\* of a single line.
Orig_C18 ==
    (parse_out.op = "vin"
        /\ Len(VinReply(parse_in.vin, parse_in.width, parse_in.spaced)) > 1)
    => /\ "vin" \in parse_out.info.keys
       /\ Len(parse_out.info.vin) = 17
       /\ parse_out.info.vin = parse_in.vin

\* C20 as stated: for a PID that is not in the registry the formula is the
\* identity, the unit is the empty string and the description is the empty
\* string; the lookup never fails.
Orig_C20 ==
    (parse_out.op = "formula" /\ parse_in.pid \in UnknownPids)
    => /\ FracEq(parse_out.value, parse_in.raw, 1)
       /\ parse_out.unit = ""
       /\ parse_out.description = <<>>

\* C20, amended: for a PID that is not in the registry the formula is the
\* identity and the unit is the empty string; the description is the text
\* "PID " followed by the PID; the lookup never fails.
Thm_C20 ==
    (parse_out.op = "formula" /\ parse_in.pid \in UnknownPids)
    => /\ FracEq(parse_out.value, parse_in.raw, 1)
       /\ parse_out.unit = ""
       /\ parse_out.description = <<"PID ">> \o parse_in.pid

Witness_C20 ==
    /\ parse_out.op = "formula" /\ parse_in.pid = PID_01FF /\ parse_in.raw = 200
    /\ parse_out.value = Frac(200, 1) /\ parse_out.unit = ""

----------------------------------------------------------------------------
(* Claims about get_vehicle_info                                            *)

\* the text a line without defect decodes to: the item and line number
\* bytes, then the field
DecodedField(item, f) == <<item, 1>> \o f.text

\* C21: in get_vehicle_info a decode failure of one field does not affect
\* the other: if the 0902 reply cannot be decoded the calibration IDs are
\* still requested and returned, if the 0904 reply cannot be decoded the VIN
\* already decoded is still returned, and in neither case does
\* get_vehicle_info raise or give up its result.
Thm_C21 ==
    parse_out.op = "info" =>
        /\ parse_out.info.keys = {"vin", "calibration_ids"}
        /\ (parse_in.vin.defect # "none" /\ parse_in.cal.defect = "none")
              => parse_out.info.calibration_ids = <<DecodedField(4, parse_in.cal)>>
        /\ (parse_in.cal.defect # "none" /\ parse_in.vin.defect = "none")
              => parse_out.info.vin = DecodedField(2, parse_in.vin)
        /\ parse_in.vin.defect # "none" => parse_out.info.vin = <<>>
        /\ parse_in.cal.defect # "none" => parse_out.info.calibration_ids = <<>>

\* the 0902 reply holds a byte that is not ASCII; the calibration ID is
\* returned all the same
Witness_C21 ==
    /\ parse_out.op = "info"
    /\ parse_in.vin.defect = "non-ascii" /\ parse_in.cal.defect = "none"
    /\ parse_out.info.vin = <<>>
    /\ parse_out.info.calibration_ids = << <<4, 1, 67, 65, 76, 49>> >>

----------------------------------------------------------------------------
(* Claims about the DTC code normalisation                                  *)

\* C22: _clean_dtc_code accepts a code only when it is exactly one prefix
\* in {P,B,C,U} followed by 4 hex digits and rejects every other input with
\* the empty result: it never returns a code that differs from its trimmed,
\* upper-cased input, and it never raises.
Orig_C22 ==
    parse_out.op = "clean" =>
        LET trimmed == Upper(Strip(parse_in.raw))
        IN  /\ parse_out.result # Raise
            /\ parse_out.result = IF WellFormed(trimmed) THEN trimmed ELSE <<>>

----------------------------------------------------------------------------
(* The live-data cache: receive_live_data (POST) and get_live_data (GET).   *)
(* A value is the record [v |-> value]; Python's None is Absent.            *)

MaxPosts == 3

Absent == [none |-> TRUE]

Some(x) == [v |-> x]

LiveFields == {"rpm", "speed", "engine_temp", "fuel_level", "throttle_position", "vin"}

IntOpt == {Absent, Some(0), Some(2500)}

VinOpt == {Absent, Some("1HGCM82633A123456")}

\* the bodies of a POST: every field is given or left out
LiveDataRequest ==
    [rpm : IntOpt, speed : IntOpt, engine_temp : IntOpt, fuel_level : IntOpt,
     throttle_position : IntOpt, vin : VinOpt, timestamp : {Absent, Some(100)}]

\* the dictionary as the module creates it
EmptyCache ==
    [rpm |-> Absent, speed |-> Absent, engine_temp |-> Absent, fuel_level |-> Absent,
     throttle_position |-> Absent, vin |-> Absent, timestamp |-> Absent]

\* a plausible slip: the cache takes whatever the request holds
store_overwrite(cached, given) == given

\* `if request.f is not None: live_data_cache[f] = request.f`
store(cached, given) == IF given # Absent THEN given ELSE cached

\* datetime.now() at the n-th POST
Now(n) == Some(200 + n)

receive_live_data ==
    /\ live_posts < MaxPosts
    /\ \E request \in LiveDataRequest :
          /\ live_data_cache' =
                [rpm               |-> store(live_data_cache.rpm, request.rpm),
                 speed             |-> store(live_data_cache.speed, request.speed),
                 engine_temp       |-> store(live_data_cache.engine_temp, request.engine_temp),
                 fuel_level        |-> store(live_data_cache.fuel_level, request.fuel_level),
                 throttle_position |-> store(live_data_cache.throttle_position,
                                             request.throttle_position),
                 vin               |-> store(live_data_cache.vin, request.vin),
                 timestamp         |-> IF request.timestamp # Absent THEN request.timestamp
                                       ELSE Now(live_posts + 1)]
          /\ live_latest' = [f \in LiveFields |->
                                IF request[f] # Absent THEN request[f] ELSE live_latest[f]]
    /\ live_posts' = live_posts + 1
    /\ live_response' = <<>>
    /\ UNCHANGED <<sessVars, exLive>>

\* LiveDataResponse built from live_data_cache.get(...)
get_live_data ==
    /\ live_response = <<>>
    /\ live_response' = live_data_cache
    /\ UNCHANGED <<live_data_cache, live_latest, live_posts, sessVars, exLive>>

InitLive ==
    /\ DtcIdle /\ ReplyIdle /\ SendIdle /\ ScannerNew /\ ConnIdle /\ FullIdle
    /\ ParseIdle /\ LoopIdle /\ SessIdle
    /\ live_data_cache = EmptyCache
    /\ live_latest = [f \in LiveFields |-> Absent]
    /\ live_response = <<>>
    /\ live_posts = 0

NextLive == receive_live_data \/ get_live_data

SpecLive == InitLive /\ [][NextLive]_vars

\* C23: after any sequence of live-data POSTs, a live-data GET returns for
\* each field (rpm, speed, engine_temp, fuel_level, throttle_position, vin)
\* the value of the most recent POST that supplied that field; a POST that
\* omits a field leaves that field's cached value unchanged.
Thm_C23 ==
    /\ [](live_response # <<>> => \A f \in LiveFields : live_response[f] = live_latest[f])
    /\ [][ live_posts' = live_posts + 1 =>
              \A f \in LiveFields :
                  live_latest'[f] = live_latest[f]
                     => live_data_cache'[f] = live_data_cache[f] ]_vars

\* three POSTs: the first gave rpm 2500 and the VIN, the later ones gave
\* speed only; the GET shows the rpm and VIN of the first
Witness_C23 ==
    /\ live_posts = 3 /\ live_response # <<>>
    /\ live_response.rpm = Some(2500) /\ live_response.speed = Some(0)
    /\ live_response.vin = Some("1HGCM82633A123456")
    /\ live_response.fuel_level = Absent

----------------------------------------------------------------------------
(* Claims about I/O errors during a send                                    *)

\* C24: when a send fails with a fatal I/O error on the serial handle
\* (write error, port gone), the connection is destroyed: the scanner
\* becomes not connected and its handle is closed (so that every later read
\* is rejected as not connected without any I/O). A send that raised has
\* either been refused, the scanner being not connected, or failed on the
\* handle; in both cases the scanner is then not connected.
Orig_C24 ==
    (last_call.op = "send" /\ last_call.raised)
    => /\ ~connected
       /\ serial_conn = 0 \/ ~handles[serial_conn].is_open

----------------------------------------------------------------------------
(* The scan sessions: start_scan_session, the background task              *)
(* perform_scan_session, get_scan_session, and disconnect_scanner coming    *)
(* between them. A session is known by its number in scan_sessions.         *)

MaxSessions == 2

ScanSessionRequest ==
    [include_sensors : BOOLEAN, include_dtc : BOOLEAN, include_vehicle_info : BOOLEAN]

common_pids == <<"0105", "010C", "010D", "010F", "0111">>

\* the commands the task writes on a scanner that is connected
session_commands(config) ==
    (IF config.include_sensors THEN common_pids ELSE <<>>)
    \o (IF config.include_dtc THEN <<"03">> ELSE <<>>)
    \o (IF config.include_vehicle_info THEN <<"0902", "0904">> ELSE <<>>)

\* what the vehicle may answer to the task: how many of the five sensors
\* give a reading, the stored codes, whether a VIN comes back
SessionReplies == [sensors : {0, 5}, codes : {<<>>, <<P0420>>}, vin : BOOLEAN]

\* every read refused or failed: get_sensor_data gives None, get_dtc_codes
\* [], get_vehicle_info {}
NoReplies == [sensors |-> 0, codes |-> <<>>, vin |-> FALSE]

\* the dictionary `data` of the task
session_data(config, r) ==
    [keys |-> (IF config.include_sensors THEN {"sensors"} ELSE {})
              \cup (IF config.include_dtc
                    THEN {"dtc_codes", "dtc_descriptions", "dtc_count"} ELSE {})
              \cup (IF config.include_vehicle_info THEN {"vehicle_info"} ELSE {}),
     sensors   |-> IF config.include_sensors THEN r.sensors ELSE 0,
     dtc_count |-> IF config.include_dtc THEN Len(r.codes) ELSE 0,
     vin       |-> config.include_vehicle_info /\ r.vin]

EmptySessionData == [keys |-> {}, sensors |-> 0, dtc_count |-> 0, vin |-> FALSE]

\* a plausible slip: the except branch records the error and leaves the
\* status as it was
session_status_unset_on_error(raised) == IF raised THEN "running" ELSE "completed"

\* the status the task leaves: "completed" at the end of the try block,
\* "failed" in the except branch
session_status(raised) == IF raised THEN "failed" ELSE "completed"

\* POST /scanner/scan-session
start_scan_session ==
    /\ Len(scan_sessions) < MaxSessions
    /\ \E request \in ScanSessionRequest :
          IF ~connected
          THEN \* HTTP 400
               /\ last_call' = [NoCall EXCEPT !.op = "start_scan_session", !.raised = TRUE]
               /\ UNCHANGED sessVars
          ELSE /\ scan_sessions' = Append(scan_sessions,
                                          [status |-> "running", data |-> EmptySessionData,
                                           config |-> request])
               /\ bg_tasks' = Append(bg_tasks, Len(scan_sessions) + 1)
               /\ sess_trace' = Append(sess_trace,
                                       [history |-> <<"running">>, ran |-> FALSE,
                                        ran_connected |-> FALSE])
               /\ last_call' = [NoCall EXCEPT !.op = "start_scan_session", !.ret = TRUE]
    /\ UNCHANGED <<scanVars, os_ports, bt_paired, exSess>>

\* the background task of a session, run by the event loop after the
\* response went out. The reads answer as the vehicle does, or come back
\* empty when the scanner is not connected or the handle fails; the
\* description lookup of a code may raise (an unreadable code table)
perform_scan_session ==
    /\ bg_tasks # <<>>
    /\ \E k \in 1..Len(bg_tasks), r \in SessionReplies, io_ok \in BOOLEAN,
          lookup_raises \in BOOLEAN :
          LET id     == bg_tasks[k]
              config == scan_sessions[id].config
              online == connected /\ serial_conn # 0 /\ handles[serial_conn].is_open /\ io_ok
              got    == IF online THEN r ELSE NoReplies
              raised == config.include_dtc /\ got.codes # <<>> /\ lookup_raises
              st     == session_status(raised)
          IN  /\ (~online => r = NoReplies)
              /\ (got.codes = <<>> \/ ~config.include_dtc => ~lookup_raises)
              /\ scan_sessions' =
                    [scan_sessions EXCEPT
                        ![id].status = st,
                        ![id].data = IF raised THEN @ ELSE session_data(config, got)]
              /\ bg_tasks' = SubSeq(bg_tasks, 1, k - 1) \o SubSeq(bg_tasks, k + 1, Len(bg_tasks))
              /\ sess_trace' =
                    [sess_trace EXCEPT
                        ![id].history = IF st # scan_sessions[id].status
                                        THEN Append(@, st) ELSE @,
                        ![id].ran = TRUE,
                        ![id].ran_connected = connected]
              /\ wire' = IF online THEN wire \o session_commands(config) ELSE wire
    /\ UNCHANGED <<port, connected, serial_conn, handles, fast_mode, connVars, exSess>>

\* GET /scanner/scan-session/{session_id}
get_scan_session ==
    /\ \E id \in 1..MaxSessions :
          last_call' = [NoCall EXCEPT
                           !.op = "get_scan_session",
                           !.raised = id > Len(scan_sessions),     \* HTTP 404
                           !.log = IF id > Len(scan_sessions) THEN "none"
                                   ELSE scan_sessions[id].status]
    /\ last_call.op # "get_scan_session"
    /\ UNCHANGED <<scanVars, os_ports, bt_paired, sessVars, exSess>>

InitSess ==
    /\ DtcIdle /\ ReplyIdle /\ SendIdle /\ ConnIdle /\ FullIdle /\ ParseIdle /\ LoopIdle
    /\ LiveIdle /\ SessIdle
    /\ fast_mode = FALSE /\ wire = <<>>
    /\ port = "/dev/ttyUSB0" /\ connected = TRUE /\ serial_conn = 1
    /\ handles = <<[port |-> "/dev/ttyUSB0", is_open |-> TRUE, timeout |-> 1]>>

NextSess ==
    \/ start_scan_session
    \/ perform_scan_session
    \/ get_scan_session
    \/ Disconnect

SpecSess == InitSess /\ [][NextSess]_vars

Sessions == 1..Len(scan_sessions)

\* C25: a scan session whose background task runs while the scanner is not
\* connected (a disconnect having been processed after the session was
\* accepted and before the task ran) ends with status "failed", never with
\* status "completed".
Orig_C25 ==
    \A id \in Sessions :
        (sess_trace[id].ran /\ ~sess_trace[id].ran_connected)
        => scan_sessions[id].status = "failed"

\* C29: every scan session accepted by start_scan_session is stored with
\* status "running"; its status changes at most once, to "completed" or to
\* "failed", never back to "running", and once its background task has run
\* the session is no longer "running".
Thm_C29 ==
    \A id \in Sessions :
        LET h == sess_trace[id].history
        IN  /\ h[1] = "running"
            /\ Len(h) <= 2
            /\ Len(h) = 2 => h[2] \in {"completed", "failed"}
            /\ scan_sessions[id].status = h[Len(h)]
            /\ sess_trace[id].ran => scan_sessions[id].status # "running"
            /\ ~sess_trace[id].ran => scan_sessions[id].status = "running"

\* two sessions: the task of one failed in the description lookup, the
\* other completed, and a GET has shown a status
Witness_C29 ==
    /\ Len(scan_sessions) = 2
    /\ \E a, b \in Sessions :
          /\ sess_trace[a].history = <<"running", "failed">>
          /\ sess_trace[b].history = <<"running", "completed">>
    /\ last_call.op = "get_scan_session" /\ last_call.log = "failed"


\* ---------------------------------------------------------------------------
\* C26  the text a send returns consists only of lines the device emitted in
\*      answer to the command that send wrote; a line of the answer to an
\*      earlier command is never returned as the reply to a later one
\* ---------------------------------------------------------------------------
Orig_C26 ==
    (snd_pc = "returned" /\ wire # <<>>) =>
        \A i \in 1..Len(rx_origin.read) : rx_origin.read[i] = Len(wire)

\* ---------------------------------------------------------------------------
\* C28  in the answer of the health check of a connected scanner, a system
\*      among engine, fuel_system, emissions, exhaust_system, transmission,
\*      electrical_system and brake_system is "critical" whenever one of the
\*      retrieved codes counted for that system has Critical severity,
\*      whatever the order of the codes
\* ---------------------------------------------------------------------------
Orig_C28 ==
    (parse_out # NoParse /\ parse_out.op = "health" /\ parse_in.conn) =>
        \A s \in Systems \ {"cooling_system"} :
            (\E i \in 1..Len(parse_in.codes) :
                 /\ s \in systems_of(parse_in.codes[i])
                 /\ get_dtc_severity(parse_in.codes[i]) = "Critical")
            => parse_out.result[s] = "critical"

\* ---------------------------------------------------------------------------
\* C27  a connect to a Bluetooth port runs the initialisation asked for in
\*      that same request: the fast one when the request has fast_mode true,
\*      the standard one when it has fast_mode false, whatever earlier
\*      requests asked for
\* ---------------------------------------------------------------------------
Orig_C27 ==
    (last_call.op = "connect" /\ last_call.opened /\ _is_bluetooth_port(last_call.open_port))
        => last_call.mode = init_mode(TRUE, last_call.req_fast)

\* ---------------------------------------------------------------------------
\* C30  when connect returns failure after the port failed to open or the
\*      handshake raised, the scanner is not connected and the handle this
\*      call opened, if it opened one, is closed
\* ---------------------------------------------------------------------------
Thm_C30 ==
    (last_call.op = "connect" /\ last_call.raised) =>
        /\ ~last_call.ret
        /\ ~connected
        /\ last_call.opened =>
              /\ serial_conn = Len(handles)
              /\ handles[serial_conn].port = last_call.open_port
              /\ ~handles[serial_conn].is_open

\* a second connect fails in its handshake while the first one succeeded
Witness_C30 ==
    /\ last_call.op = "connect" /\ last_call.raised /\ last_call.opened
    /\ Len(handles) = 2
    /\ ~handles[2].is_open /\ ~connected

\* a connect whose port does not open finds the scanner connected
Witness_C30_open ==
    /\ last_call.op = "connect" /\ last_call.raised /\ ~last_call.opened
    /\ Len(handles) = 1 /\ ~handles[1].is_open /\ ~connected
====
